---- MODULE Spec2Model ----
(***************************************************************************)
(* A model of the ssh-multi-connect extension: the session registry       *)
(* (SSHViewProvider), the host-key trust store, the command broadcast      *)
(* panel, the ssh_config store and the remote file listing order.          *)
(*                                                                         *)
(* JavaScript objects are modelled as slots of a small heap (obj, client,  *)
(* term, prov): two holders share an object exactly when they hold the     *)
(* same slot number.  A slot nobody can reach any more is recycled.        *)
(* Every handler of the extension is one action; an async handler is cut   *)
(* at the awaits that really suspend (a prompt, a subprocess), and the     *)
(* task record keeps the locals that live across the await.                *)
(***************************************************************************)
EXTENDS Integers, Sequences, FiniteSets, TLC

\* ---------------------------------------------------------------- bounds
MaxObj     == 5    \* connection objects alive at once
MaxClient  == 3    \* ssh2 Client objects alive at once
MaxTerm    == 3    \* terminals alive (or still referenced) at once
MaxProv    == 3    \* registered RemoteFileProvider objects alive at once
MaxTask    == 2    \* async handlers suspended at once
MaxHandler == 2    \* 'ready' listeners on one Client
MaxCmds    == 3    \* commands and outside events in one behaviour
MaxPanelCmds == 5  \* the same, in the behaviours of SpecPanel
MaxOps     == 4    \* writes of the config file in the behaviours of SpecConfig
MaxEntries == 3    \* entries of one remote directory
MaxEdits   == 5    \* editor events in the behaviours of SpecEditor
MaxUploads == 2    \* uploads in flight at once

ObjIds    == 1..MaxObj
ClientIds == 1..MaxClient
TermIds   == 1..MaxTerm
ProvIds   == 1..MaxProv
TaskIds   == 1..MaxTask

\* ------------------------------------------------------------ value sets
Aliases      == {"A", "B"}
Fingerprints == {"F1", "F2"}
Files        == {"f"}
None         == "none"

\* remote paths as <<directory, base name>>
RemotePaths == {<<"x", "f">>, <<"y", "f">>, <<"x", "g">>}

\* path.join(os.tmpdir(), `${host}_${path.basename(resourceUri.fsPath)}`) in
\* the file browser of one alias: the base name decides
LocalPathOf(r) == r[2]

LocalPaths == {LocalPathOf(r) : r \in RemotePaths}

\* tempFileMap.get(filePath) === undefined
NoPath == <<>>

\* Both records name the same server: HostName differs from the alias.
HostnameOf(a) == "h"
Hosts == {HostnameOf(a) : a \in Aliases}

AliasOrd(a) == IF a = "A" THEN 1 ELSE 2

Range(f) == {f[x] : x \in DOMAIN f}

RECURSIVE SetToSeq(_)
SetToSeq(S) ==
    IF S = {} THEN <<>>
    ELSE LET m == CHOOSE x \in S : \A y \in S : x <= y
         IN <<m>> \o SetToSeq(S \ {m})

\* ------------------------------------------------------------- variables
VARIABLES
    cfg,            \* ~/.ssh/config as the sequence of its Host blocks
    watch,          \* a 'change' event of the config file watcher is pending
    known,          \* ~/.ssh/known_hosts: hostname -> sequence of key fingerprints
    hostKey,        \* the key each server presents to ssh-keyscan right now
    obj,            \* heap of ExtendedSSHConnection objects
    connections,    \* SSHViewProvider.connections (sequence of object slots)
    selected,       \* SSHViewProvider.selectedConnection (slot or 0)
    terminals,      \* SSHViewProvider.terminals: alias -> terminal slot or 0
    instProv,       \* SSHViewProvider.remoteFileProviders: alias -> provider slot or 0
    statProv,       \* RemoteFileProvider.connectionProviders: alias -> provider slot or 0
    prov,           \* heap of RemoteFileProvider objects
    client,         \* heap of ssh2 Client objects
    term,           \* heap of vscode.Terminal objects
    winTerms,       \* vscode.window.terminals, in creation order
    closeEv,        \* terminals whose onDidCloseTerminal event is not yet delivered
    panel,          \* the MultiCommandPanel (or not yet resolved)
    task,           \* suspended async handlers (connect, moveConnectionToFolder)
    item,           \* the tree items the connections view displays, per alias
    left,           \* commands and outside events the behaviour may still take
    out,             \* what the last command of the panel did with its targets
    text,           \* the config file as text (specification SpecConfig)
    saved,          \* alias -> the record last upserted and not removed since
    lastOp,         \* the last write of the config file and where it hit
    ops,            \* writes of the config file so far
    listing,        \* what readRemoteDirectory returned last
    shown,          \* RemoteFileProvider.fileLists entry of that directory
    tempFileMap,    \* RemoteFileProvider.tempFileMap: local temp path -> remote path
    localFiles,     \* the temp files that exist in os.tmpdir()
    editors,        \* the temp files that have an open editor document
    uploads,        \* onDidSaveTextDocument handlers waiting for their fastPut
    uploaded,       \* the uploads the server has completed, oldest first
    edits           \* editor events so far (specification SpecEditor)

regVars == <<cfg, watch, known, hostKey, obj, connections, selected, terminals,
             instProv, statProv, prov, client, term, winTerms, closeEv, panel,
             task, item, left, out>>

storeVars == <<text, saved, lastOp, ops>>

fileVars == <<listing, shown>>

editVars == <<tempFileMap, localFiles, editors, uploads, uploaded, edits>>

vars == <<regVars, storeVars, fileVars, editVars>>

\* --------------------------------------------------------- record shapes
NoObj == [alias |-> None, user |-> None, key |-> FALSE, tag |-> None,
          client |-> 0, password |-> None, passphrase |-> None]

NoClient == [st |-> "free", alias |-> None, ended |-> FALSE, dial |-> None,
             ready |-> <<>>, errs |-> <<>>]

NoTerm == [st |-> "free", alias |-> None, user |-> None, secretArg |-> FALSE]

NoProv == [used |-> FALSE, conn |-> 0, temp |-> {}]

NoTask == [pc |-> "idle", conn |-> 0, known |-> FALSE, fresh |-> FALSE,
           scanned |-> None, hidden |-> FALSE]

NoItem == [conn |-> 0, connected |-> FALSE]

NoOut == [targets |-> {}, delivered |-> {}, failed |-> {}, aborted |-> FALSE]

\* The whole program state as one record, so that a handler is a function
\* from state to state and handlers can call each other.
Cur == [cfg |-> cfg, watch |-> watch, known |-> known, hostKey |-> hostKey,
        obj |-> obj, conns |-> connections, sel |-> selected,
        terminals |-> terminals, instProv |-> instProv, statProv |-> statProv,
        prov |-> prov, client |-> client, term |-> term, win |-> winTerms,
        closeEv |-> closeEv, panel |-> panel, task |-> task, item |-> item,
        out |-> NoOut, notices |-> {}, fire |-> FALSE,
        ok |-> TRUE, cmd |-> FALSE]

\* the same, for a handler that a command of the user or an event from
\* outside starts
CmdCur == [Cur EXCEPT !.cmd = TRUE]

\* showInformationMessage / showErrorMessage
Notice(s, kind, a) == [s EXCEPT !.notices = @ \cup {<<kind, a>>}]

\* ------------------------------------------------------ heap reachability
LiveClient(cl) == cl.st \in {"connecting", "ready"}

\* The connection objects somebody other than a Client listener holds.
BaseRoots(s) ==
    (Range(s.conns) \cup {s.item[a].conn : a \in Aliases}
       \cup {s.task[t].conn : t \in TaskIds}
       \cup {s.prov[p].conn : p \in ProvIds}
       \cup {s.sel} \cup Range(s.panel.conns)) \ {0}

ClientsOf(s, K) ==
    ({c \in ClientIds : LiveClient(s.client[c])}
       \cup {s.obj[o].client : o \in K}) \ {0}

\* The connection objects the listeners of the clients C close over.
HandlerConns(s, C) ==
    UNION {{s.client[c].ready[i].conn : i \in DOMAIN s.client[c].ready}
             \cup Range(s.client[c].errs) : c \in C}

RECURSIVE Reach(_, _)
Reach(s, K) ==
    LET K2 == K \cup HandlerConns(s, ClientsOf(s, K))
    IN IF K2 = K THEN K ELSE Reach(s, K2)

AliasSeq == SetToSeq({AliasOrd(a) : a \in Aliases})
AliasAt(i) == CHOOSE a \in Aliases : AliasOrd(a) = i

\* seq without its zeros and repetitions, first occurrences kept in order
RECURSIVE Uniq(_, _)
Uniq(seq, acc) ==
    IF seq = <<>> THEN acc
    ELSE IF Head(seq) = 0 \/ Head(seq) \in Range(acc) THEN Uniq(Tail(seq), acc)
    ELSE Uniq(Tail(seq), Append(acc, Head(seq)))

IndexOf(seq, x) == IF x = 0 THEN 0 ELSE CHOOSE i \in DOMAIN seq : seq[i] = x

PerAlias(f) == [i \in DOMAIN AliasSeq |-> f[AliasAt(i)]]

\* The connection objects and Clients that can still be reached, each in the
\* order in which a walk from the holders meets it.
RECURSIVE Walk(_, _, _, _)
Walk(s, queue, os, cs) ==
    IF queue = <<>>
    THEN LET orphans == {c \in ClientIds : LiveClient(s.client[c])} \ Range(cs)
         IN IF orphans = {} THEN [os |-> os, cs |-> cs]
            ELSE LET c == CHOOSE x \in orphans : \A y \in orphans : x <= y
                 IN Walk(s, [i \in DOMAIN s.client[c].ready |-> s.client[c].ready[i].conn]
                              \o s.client[c].errs, os, Append(cs, c))
    ELSE LET o == Head(queue)
         IN IF o = 0 \/ o \in Range(os) THEN Walk(s, Tail(queue), os, cs)
            ELSE LET c == s.obj[o].client
                     more == IF c = 0 THEN <<>>
                             ELSE [i \in DOMAIN s.client[c].ready |-> s.client[c].ready[i].conn]
                                    \o s.client[c].errs
                 IN Walk(s, Tail(queue) \o more, Append(os, o),
                         IF c = 0 \/ c \in Range(cs) THEN cs ELSE Append(cs, c))

\* The end of a handler as the garbage collector sees it: every object that
\* no holder can reach any more gives its slot back, and the slots in use are
\* numbered in walk order (two heaps that differ only in the numbering of
\* their slots are the same program state).
Sweep(s) ==
    LET ps == Uniq(PerAlias(s.statProv) \o PerAlias(s.instProv), <<>>)
        ks == Uniq(PerAlias(s.terminals) \o PerAlias(s.panel.cache) \o s.win
                     \o SetToSeq(s.closeEv), <<>>)
        w  == Walk(s, s.conns \o [i \in DOMAIN AliasSeq |-> s.item[AliasAt(i)].conn]
                        \o [t \in TaskIds |-> s.task[t].conn] \o <<s.sel>>
                        \o s.panel.conns \o [i \in DOMAIN ps |-> s.prov[ps[i]].conn],
                   <<>>, <<>>)
        O(x) == IndexOf(w.os, x)
        C(x) == IndexOf(w.cs, x)
        K(x) == IndexOf(ks, x)
        P(x) == IndexOf(ps, x)
    IN [s EXCEPT
          !.obj = [o \in ObjIds |->
                     IF o > Len(w.os) THEN NoObj
                     ELSE [s.obj[w.os[o]] EXCEPT !.client = C(@)]],
          !.client = [c \in ClientIds |->
                     IF c > Len(w.cs) THEN NoClient
                     ELSE [s.client[w.cs[c]] EXCEPT
                             !.ready = [i \in DOMAIN @ |-> [@[i] EXCEPT !.conn = O(@)]],
                             !.errs  = [i \in DOMAIN @ |-> O(@[i])]]],
          !.term = [k \in TermIds |-> IF k > Len(ks) THEN NoTerm ELSE s.term[ks[k]]],
          !.prov = [p \in ProvIds |->
                     IF p > Len(ps) THEN NoProv
                     ELSE [s.prov[ps[p]] EXCEPT !.conn = O(@)]],
          !.conns = [i \in DOMAIN @ |-> O(@[i])],
          !.sel = O(@),
          !.item = [a \in Aliases |-> [s.item[a] EXCEPT !.conn = O(@)]],
          !.task = [t \in TaskIds |-> [s.task[t] EXCEPT !.conn = O(@)]],
          !.panel = [open |-> s.panel.open,
                     conns |-> [i \in DOMAIN s.panel.conns |-> O(s.panel.conns[i])],
                     cache |-> [a \in Aliases |-> K(s.panel.cache[a])]],
          !.terminals = [a \in Aliases |-> K(@[a])],
          !.win = [i \in DOMAIN @ |-> K(@[i])],
          !.closeEv = {K(k) : k \in @},
          !.statProv = [a \in Aliases |-> P(@[a])],
          !.instProv = [a \in Aliases |-> P(@[a])]]

\* ------------------------------------------------- ssh_config, block level
\* (the text of the file is modelled further down; the registry only needs
\*  the blocks, in file order)
BlockOf(o) == [alias |-> o.alias, user |-> o.user, key |-> o.key, tag |-> o.tag]

HasBlock(c, a) == \E i \in DOMAIN c : c[i].alias = a

\* insertOrUpdateConnection: the block of the same Host is replaced where it
\* stands, a new block is appended.
RECURSIVE ReplaceFirst(_, _, _)
ReplaceFirst(c, b, done) ==
    IF c = <<>> THEN <<>>
    ELSE IF Head(c).alias = b.alias
         THEN (IF done THEN <<Head(c)>> ELSE <<b>>) \o ReplaceFirst(Tail(c), b, TRUE)
         ELSE <<Head(c)>> \o ReplaceFirst(Tail(c), b, done)

UpsertBlock(c, b) ==
    IF HasBlock(c, b.alias) THEN ReplaceFirst(c, b, FALSE) ELSE Append(c, b)

\* removeConnection(host) of sshUtils: every block of that Host goes.
RemoveBlock(c, a) == SelectSeq(c, LAMBDA b : b.alias # a)

\* ------------------------------------------------------ loadSSHConnections
\* The comparator of loadSSHConnections: < 0 when x sorts before y.
TagOrd(t) == IF t = "t" THEN 1 ELSE 2
UserOrd(u) == IF u = None THEN 2 ELSE 1

LoadLess(x, y) ==
    IF x.tag # None /\ y.tag # None THEN TagOrd(x.tag) < TagOrd(y.tag)
    ELSE IF x.tag # None THEN TRUE
    ELSE IF y.tag # None THEN FALSE
    ELSE IF x.alias # y.alias THEN AliasOrd(x.alias) < AliasOrd(y.alias)
    ELSE UserOrd(x.user) < UserOrd(y.user)

\* Array.prototype.sort is stable: insert each block after the last one that
\* does not sort after it.
RECURSIVE InsertSorted(_, _)
InsertSorted(sorted, b) ==
    IF sorted = <<>> THEN <<b>>
    ELSE IF LoadLess(b, Head(sorted)) THEN <<b>> \o sorted
         ELSE <<Head(sorted)>> \o InsertSorted(Tail(sorted), b)

RECURSIVE SortBlocks(_)
SortBlocks(c) ==
    IF c = <<>> THEN <<>>
    ELSE InsertSorted(SortBlocks(SubSeq(c, 1, Len(c) - 1)), c[Len(c)])

FreshObj(b) == [alias |-> b.alias, user |-> b.user, key |-> b.key, tag |-> b.tag,
                client |-> 0, password |-> None, passphrase |-> None]

PanelUpdate(s) ==
    IF s.panel.open
    THEN [s EXCEPT !.panel.conns = SelectSeq(s.conns, LAMBDA o : s.obj[o].client # 0)]
    ELSE s

\* loadSSHConnections(): every connection object is replaced by a new one that
\* holds no client; the panel is told the (now empty) connected list; the tree
\* is refreshed.  keep: the objects the caller's frame still holds.
LoadSSHConnections(s, keep) ==
    LET base   == [s EXCEPT !.conns = <<>>,
                            !.item = [a \in Aliases |-> NoItem]]
        kept   == Reach(base, BaseRoots(base) \cup keep)
        blocks == SortBlocks(s.cfg)
        free   == SetToSeq(ObjIds \ kept)
    IN IF Len(free) < Len(blocks) THEN [s EXCEPT !.ok = FALSE]
       ELSE LET ids == SubSeq(free, 1, Len(blocks))
                s1  == [s EXCEPT
                          !.obj = [o \in ObjIds |->
                                     IF \E i \in DOMAIN ids : ids[i] = o
                                     THEN FreshObj(blocks[CHOOSE i \in DOMAIN ids : ids[i] = o])
                                     ELSE IF o \in kept THEN s.obj[o] ELSE NoObj],
                          !.conns = ids,
                          !.fire = TRUE]
            IN PanelUpdate(s1)

\* removeConnectionFromList(connection): the filter of the array is
\* overwritten at once by the reload that follows it.
RemoveConnectionFromList(s, o) == LoadSSHConnections(s, {o})

\* -------------------------------------------------------------- tree view
\* getChildren() after a full refresh: one item per connection object, shown
\* connected when the object holds a client.
ItemFor(s, a) ==
    LET idx == {i \in DOMAIN s.conns : s.obj[s.conns[i]].alias = a}
    IN IF idx = {} THEN NoItem
       ELSE LET i == CHOOSE i \in idx : \A j \in idx : i <= j
            IN [conn |-> s.conns[i], connected |-> s.obj[s.conns[i]].client # 0]

\* The tree items held by suspended handlers and listeners are no longer the
\* displayed ones once the tree has been rebuilt.
Rebuild(s) ==
    IF ~s.fire THEN s
    ELSE [s EXCEPT
            !.item = [a \in Aliases |-> ItemFor(s, a)],
            !.task = [t \in TaskIds |-> [s.task[t] EXCEPT !.fresh = FALSE]],
            !.client = [c \in ClientIds |-> [s.client[c] EXCEPT !.ready =
                          [i \in DOMAIN @ |-> [@[i] EXCEPT !.fresh = FALSE]]]]]

\* What a handler leaves behind once the tree view and the garbage collector
\* have run.
Done(s) == Sweep(Rebuild(s))

\* The end of a handler: the new state becomes the program's state.
Commit(s0) ==
    \E r \in {s0} : r.ok /\ \E s \in {Done(r)} :
          /\ cfg' = s.cfg
          /\ watch' = s.watch
          /\ known' = s.known
          /\ hostKey' = s.hostKey
          /\ obj' = s.obj
          /\ connections' = s.conns
          /\ selected' = s.sel
          /\ terminals' = s.terminals
          /\ instProv' = s.instProv
          /\ statProv' = s.statProv
          /\ prov' = s.prov
          /\ client' = s.client
          /\ term' = s.term
          /\ winTerms' = s.win
          /\ closeEv' = s.closeEv
          /\ panel' = s.panel
          /\ task' = s.task
          /\ item' = s.item
          /\ left' = IF s.cmd THEN left - 1 ELSE left
          /\ out' = s.out
          /\ UNCHANGED <<storeVars, fileVars, editVars>>

\* ------------------------------------------------------------- allocation
MinOf(S) == CHOOSE x \in S : \A y \in S : x <= y

FreeClient(s) ==
    LET F == {c \in ClientIds : s.client[c].st = "free"} IN IF F = {} THEN 0 ELSE MinOf(F)

FreeTerm(s) ==
    LET F == {k \in TermIds : s.term[k].st = "free"} IN IF F = {} THEN 0 ELSE MinOf(F)

FreeProv(s) ==
    LET F == {p \in ProvIds : ~s.prov[p].used} IN IF F = {} THEN 0 ELSE MinOf(F)

FreeTask == LET F == {t \in TaskIds : task[t].pc = "idle"} IN IF F = {} THEN 0 ELSE MinOf(F)

\* A bound of the model is reached: the step is not taken.
Fail(s) == [s EXCEPT !.ok = FALSE]

FirstWith(seq, P(_)) ==
    LET idx == {i \in DOMAIN seq : P(seq[i])}
    IN IF idx = {} THEN 0 ELSE seq[MinOf(idx)]

\* ------------------------------------------------------------- ssh2 Client
\* new Client(), stored in connection.client
NewClientFor(s, o) ==
    LET c == FreeClient(s)
    IN IF c = 0 THEN Fail(s)
       ELSE [s EXCEPT !.client[c] = [NoClient EXCEPT !.st = "new", !.alias = s.obj[o].alias],
                      !.obj[o].client = c]

\* client.end()
ClientEnd(s, c) ==
    [s EXCEPT !.client[c].st = IF LiveClient(s.client[c]) THEN "closed" ELSE @,
              !.client[c].ended = TRUE]

\* client.on('error', ...), handleConnectionReady (client.on('ready', ...)) and
\* client.connect(...) of connectWithPassword / connectWithSSHKey.  connect()
\* on a Client that is already connected drops that connection and dials again.
ListenAndDial(s, t, o, secretArg, dial) ==
    LET c == s.obj[o].client
    IN IF Len(s.client[c].ready) >= MaxHandler THEN Fail(s)
       ELSE [s EXCEPT
               !.client[c].errs  = Append(@, o),
               !.client[c].ready = Append(@, [conn |-> o, fresh |-> s.task[t].fresh,
                                              secretArg |-> secretArg]),
               !.client[c].st    = "connecting",
               !.client[c].dial  = dial]

\* ------------------------------------------------------- known_hosts store
\* isKnownHost(hostname)
IsKnownHost(s, h) ==
    [exists |-> s.known[h] # <<>>,
     key    |-> IF s.known[h] # <<>> THEN Head(s.known[h]) ELSE None]

\* removeKnownHost(hostname): ssh-keygen -R drops every line of the host
RemoveKnownHost(s, h) == [s EXCEPT !.known[h] = <<>>]

\* addKnownHost that appends the scanned key without looking at the file
AddKnownHostAppend(s, h, fingerprint, net) ==
    IF net THEN [s EXCEPT !.known[h] = Append(@, s.hostKey[h])] ELSE s

\* addKnownHost(hostname, fingerprint): the fingerprint only decides whether
\* the old entry goes; the line appended is what ssh-keyscan returns now
\* (net: the scan succeeds; when it does not the error is logged and dropped).
AddKnownHost(s, h, fingerprint, net) ==
    LET e  == IsKnownHost(s, h)
        s1 == IF e.exists /\ e.key # None /\ e.key # fingerprint
              THEN RemoveKnownHost(s, h) ELSE s
    IN IF e.exists /\ ~(e.key # None /\ e.key # fingerprint) THEN s
       ELSE IF net THEN [s1 EXCEPT !.known[h] = Append(@, s.hostKey[h])]
       ELSE s1

\* -------------------------------------------------------------- terminals
\* terminal.dispose()
Dispose(s, k) ==
    IF s.term[k].st # "open" THEN s
    ELSE [s EXCEPT !.term[k].st = "closed",
                   !.win = SelectSeq(@, LAMBDA x : x # k),
                   !.closeEv = @ \cup {k}]

\* ---------------------------------------------------- RemoteFileProvider
\* RemoteFileProvider.createOrGetProvider(connection, '/')
CreateOrGetProvider(s, o) ==
    LET a == s.obj[o].alias
        p == FreeProv(s)
    IN IF s.statProv[a] # 0 THEN s
       ELSE IF p = 0 THEN Fail(s)
       ELSE [s EXCEPT !.prov[p] = [used |-> TRUE, conn |-> o, temp |-> {}],
                      !.statProv[a] = p]

\* RemoteFileProvider.cleanup()
Cleanup(s, p) ==
    [s EXCEPT !.statProv[s.obj[s.prov[p].conn].alias] = 0,
              !.prov[p].temp = {}]

\* loadRemoteFiles(connection, '/'): a provider that is not in the static map
\* is created but registered nowhere, so nothing is kept of it.
LoadRemoteFiles(s, o) ==
    LET a == s.obj[o].alias
    IN IF s.obj[o].client = 0 THEN Notice(s, "notEstablished", a)
       ELSE IF s.statProv[a] = 0 THEN s
       ELSE [s EXCEPT !.prov[s.statProv[a]].conn = o]

\* ------------------------------------------------------------- disconnect
DisconnectSelection(s, o) ==
    LET a == s.obj[o].alias
    IN IF s.sel # 0 /\ s.obj[s.sel].alias = a
       THEN LET n == FirstWith(s.conns, LAMBDA x : s.obj[x].client # 0)
                s1 == [s EXCEPT !.sel = n]
            IN IF n # 0 THEN CreateOrGetProvider(s1, n) ELSE s1
       ELSE s

\* refresh()
Refresh(s) == PanelUpdate([s EXCEPT !.fire = TRUE])

\* disconnect without the test 'if (connection.client)': ending a client that
\* is not there raises
DisconnectUnguarded(s, o) ==
    IF s.obj[o].client = 0 THEN Notice(s, "disconnectError", s.obj[o].alias)
    ELSE Notice(Refresh(PanelUpdate(DisconnectSelection(
           [ClientEnd(s, s.obj[o].client) EXCEPT !.obj[o].client = 0], o))),
           "closed", s.obj[o].alias)

\* disconnect that disposes the terminal but leaves it in the terminal map
DisconnectKeepTerminal(s, o) ==
    LET a  == s.obj[o].alias
        c  == s.obj[o].client
        s1 == IF c # 0 THEN [ClientEnd(s, c) EXCEPT !.obj[o].client = 0] ELSE s
        k  == s1.terminals[a]
        s2 == IF k # 0 THEN Dispose(s1, k) ELSE s1
        p  == s2.statProv[a]
        s3 == IF p # 0 THEN Cleanup(s2, p) ELSE s2
        s4 == DisconnectSelection(s3, o)
    IN Notice(Refresh(PanelUpdate(s4)), "closed", a)

\* disconnect(treeItem), treeItem.connection = o
Disconnect(s, o) ==
    LET a  == s.obj[o].alias
        c  == s.obj[o].client
        s1 == IF c # 0 THEN [ClientEnd(s, c) EXCEPT !.obj[o].client = 0] ELSE s
        k  == s1.terminals[a]
        s2 == IF k # 0 THEN [Dispose(s1, k) EXCEPT !.terminals[a] = 0] ELSE s1
        p  == s2.statProv[a]
        s3 == IF p # 0 THEN Cleanup(s2, p) ELSE s2
        s4 == DisconnectSelection(s3, o)
    IN Notice(Refresh(PanelUpdate(s4)), "closed", a)

\* handleTerminalClose(terminal)
HandleTerminalClose(s, k) ==
    LET as == {a \in Aliases : s.terminals[a] = k}
    IN IF as = {} THEN s
       ELSE LET a == CHOOSE a \in as : TRUE
                o == FirstWith(s.conns, LAMBDA x : s.obj[x].alias = a)
            IN IF o = 0 THEN s ELSE Disconnect(s, o)

\* --------------------------------------------------------------- selection
\* selectConnection(treeItem); throws: terminal.show() on a terminal that is
\* already disposed raises, and the rest of the handler is skipped.
SelectConnection(s, o, throws) ==
    LET a  == s.obj[o].alias
        k  == s.terminals[a]
        s1 == IF s.obj[o].client # 0
              THEN LET s0 == CreateOrGetProvider([s EXCEPT !.sel = o], o)
                   IN [s0 EXCEPT !.instProv[a] = s0.statProv[a]]
              ELSE [s EXCEPT !.sel = 0]
    IN IF k # 0 /\ s.term[k].st # "open" /\ throws THEN s1
       ELSE IF s1.sel # 0 THEN LoadRemoteFiles(s1, s1.sel) ELSE s1

\* handleTerminalSelectionChange(terminal)
HandleTerminalSelectionChange(s, k, throws) ==
    LET o == FirstWith(s.conns, LAMBDA x : /\ s.obj[x].user # None
                                           /\ s.obj[x].user = s.term[k].user
                                           /\ s.obj[x].alias = s.term[k].alias)
    IN IF o = 0 THEN s ELSE SelectConnection(s, o, throws)

\* ------------------------------------------------------ client listeners
\* the 'ready' listener registered by handleConnectionReady
OnReady(s, h) ==
    LET o  == h.conn
        a  == s.obj[o].alias
        k  == FreeTerm(s)
        s1 == IF h.fresh THEN [s EXCEPT !.item[a].connected = TRUE] ELSE s
    IN IF k = 0 THEN Fail(s)
       ELSE LoadRemoteFiles(
              Notice([s1 EXCEPT
                        !.term[k] = [st |-> "open", alias |-> a, user |-> s.obj[o].user,
                                     secretArg |-> h.secretArg],
                        !.win = Append(@, k),
                        !.terminals[a] = k], "connected", a), o)

RECURSIVE RunReady(_, _)
RunReady(s, hs) ==
    IF hs = <<>> \/ ~s.ok THEN s ELSE RunReady(OnReady(s, Head(hs)), Tail(hs))

\* the 'error' listeners of connectWithPassword / connectWithSSHKey
RECURSIVE RunError(_, _)
RunError(s, hs) ==
    IF hs = <<>> \/ ~s.ok THEN s
    ELSE RunError(RemoveConnectionFromList(
                    Notice(s, "failedToConnect", s.obj[Head(hs)].alias), Head(hs)),
                  Tail(hs))

\* ------------------------------------------------------------ input boxes
InputPcs == {"user", "pass", "phrase", "folder"}

PromptOpen(tk) == tk.pc \in InputPcs /\ ~tk.hidden

\* showInputBox: the box that was open, if any, is hidden and resolves to
\* undefined; the new one is shown.
OpenPrompt(s, t, pc) ==
    [s EXCEPT !.task = [u \in TaskIds |->
        IF u = t THEN [s.task[u] EXCEPT !.pc = pc, !.hidden = FALSE]
        ELSE IF PromptOpen(s.task[u]) THEN [s.task[u] EXCEPT !.hidden = TRUE]
        ELSE s.task[u]]]

\* ---------------------------------------------------------------- connect
\* The tail of connect(): in the branch of a host that was not in known_hosts
\* the key is scanned and stored once tryConnect has returned, whatever it
\* did; then the panel is told the connected list.  net: ssh-keyscan reaches
\* the server while this handler runs.
AfterTry(s, t, net) ==
    LET o  == s.task[t].conn
        h  == HostnameOf(s.obj[o].alias)
        s1 == [s EXCEPT !.task[t] = NoTask]
        s2 == IF s.task[t].known THEN s1
              ELSE IF ~net
                   THEN RemoveConnectionFromList(
                          Notice(s1, "addHostFailed", s.obj[o].alias), o)
                   ELSE Notice(AddKnownHost(s1, h, s.hostKey[h], net),
                               "hostAdded", s.obj[o].alias)
    IN PanelUpdate(s2)

\* A failure branch that shows a message and calls removeConnectionFromList.
GiveUp(s, t, kind, net) ==
    LET o == s.task[t].conn
    IN AfterTry(RemoveConnectionFromList(Notice(s, kind, s.obj[o].alias), o), t, net)

\* tryConnect after the username is there.  keyFile: what getIdentityFile and
\* the read of the key file find ("missing", "unreadable", "encrypted", "plain").
AfterUser(s, t, keyFile, net) ==
    LET o == s.task[t].conn
    IN IF s.obj[o].key
       THEN IF keyFile = "missing" THEN GiveUp(s, t, "identityMissing", net)
            ELSE [s EXCEPT !.task[t].pc = "tool"]
       ELSE OpenPrompt(s, t, "pass")

\* tryConnect(connection, treeItem)
TryConnect(s, t, keyFile, net) ==
    LET o == s.task[t].conn
    IN IF s.obj[o].user = None THEN OpenPrompt(s, t, "user")
       ELSE AfterUser(s, t, keyFile, net)

\* connect(treeItem), up to the first await that suspends
Connect(s, t, o, keyFile, net) ==
    LET a  == s.obj[o].alias
        h  == HostnameOf(a)
        s1 == IF s.obj[o].client = 0 THEN NewClientFor(s, o) ELSE s
        e  == IsKnownHost(s1, h)
        s2 == [s1 EXCEPT !.task[t] = [NoTask EXCEPT !.conn = o, !.known = e.exists,
                                                    !.fresh = TRUE]]
    IN IF ~s1.ok THEN s1
       ELSE IF ~e.exists THEN TryConnect(s2, t, keyFile, net)
       ELSE IF ~net THEN GiveUp(s2, t, "verifyError", net)
       ELSE IF e.key # s.hostKey[h]
            THEN [s2 EXCEPT !.task[t].pc = "confirm", !.task[t].scanned = s.hostKey[h]]
       ELSE TryConnect(s2, t, keyFile, net)

\* updateKnownHosts going on to tryConnect whatever the answer to the warning
AnswerConfirmLenient(s, t, yes, keyFile, net) ==
    LET o == s.task[t].conn
        h == HostnameOf(s.obj[o].alias)
    IN IF yes
       THEN TryConnect(AddKnownHost(RemoveKnownHost(s, h), h, s.task[t].scanned, net),
                       t, keyFile, net)
       ELSE TryConnect(s, t, keyFile, net)

\* updateKnownHosts after the warning 'host key has changed' is answered
AnswerConfirm(s, t, yes, keyFile, net) ==
    LET o == s.task[t].conn
        h == HostnameOf(s.obj[o].alias)
    IN IF yes
       THEN TryConnect(AddKnownHost(RemoveKnownHost(s, h), h, s.task[t].scanned, net),
                       t, keyFile, net)
       ELSE GiveUp(s, t, "verifyError", net)

\* tryConnect after the username box is answered (None: dismissed or empty)
AnswerUser(s, t, ans, keyFile, net) ==
    LET o == s.task[t].conn
    IN IF ans = None THEN GiveUp(s, t, "userRequired", net)
       ELSE AfterUser([s EXCEPT !.obj[o].user = ans], t, keyFile, net)

\* tryConnect after the password box is answered; connectWithPassword then
\* waits for the sshpass check
AnswerPass(s, t, ans, net) ==
    LET o == s.task[t].conn
    IN IF ans = None THEN GiveUp(s, t, "noPassword", net)
       ELSE [s EXCEPT !.obj[o].password = ans, !.task[t].pc = "tool"]

\* connectWithPassword after isSSHPassInstalled() settles
\* (tool: "ok", "none" = resolves false, "reject" = the check itself fails)
PasswordProceed(s, t, tool, net) ==
    LET o == s.task[t].conn
        a == s.obj[o].alias
    IN IF tool = "none" THEN GiveUp(s, t, "noSshpass", net)
       ELSE IF tool = "reject" \/ s.obj[o].client = 0
            THEN GiveUp(s, t, "errorPassword", net)
       ELSE AfterTry(ListenAndDial(s, t, o, FALSE, HostnameOf(a)), t, net)

\* connectWithSSHKey from 'if (!passphrase)' on
KeyProceed(s, t, passphrase, net) ==
    LET o  == s.task[t].conn
        a  == s.obj[o].alias
        s1 == NewClientFor(s, o)
    IN IF passphrase = None THEN AfterTry(Notice(s, "noPassphrase", a), t, net)
       ELSE IF ~s1.ok THEN s1
       ELSE AfterTry(ListenAndDial(s1, t, o, TRUE, a), t, net)

\* connectWithSSHKey after isSSHPassInstalled() settles
SSHKeyProceed(s, t, tool, keyFile, net) ==
    LET o == s.task[t].conn
        a == s.obj[o].alias
    IN IF tool = "none" THEN GiveUp(s, t, "noSshpass", net)
       ELSE IF tool = "reject" THEN AfterTry(Notice(s, "errorKey", a), t, net)
       ELSE IF keyFile \in {"missing", "unreadable"} THEN GiveUp(s, t, "keyReadFailed", net)
       ELSE IF keyFile = "encrypted" THEN OpenPrompt(s, t, "phrase")
       ELSE KeyProceed(s, t, s.obj[o].passphrase, net)

\* connectWithSSHKey after the passphrase box is answered
AnswerPhrase(s, t, ans, net) ==
    IF ans = None THEN GiveUp(s, t, "phraseCancelled", net)
    ELSE KeyProceed(s, t, ans, net)

\* ------------------------------------------------- remove, move to folder
SameHostUser(x, y) == x.alias = y.alias /\ x.user = y.user

\* removeConnection without the filter of this.connections
RemoveConnectionKeepEntry(s, o) ==
    IF s.obj[o].user = None THEN Notice(s, "hostUserRequired", s.obj[o].alias)
    ELSE Notice([s EXCEPT !.cfg = RemoveBlock(@, s.obj[o].alias),
                          !.watch = @ \/ HasBlock(s.cfg, s.obj[o].alias)],
                "removed", s.obj[o].alias)

\* removeConnection(treeItem): the block leaves the file, the entry leaves the
\* array, the terminals of that name are disposed.  The Client is not ended,
\* the terminal map is not touched, and only the one tree item is refreshed.
RemoveConnection(s, o) ==
    LET a  == s.obj[o].alias
        s1 == [s EXCEPT
                 !.cfg   = RemoveBlock(@, a),
                 !.watch = @ \/ HasBlock(s.cfg, a),
                 !.conns = SelectSeq(@, LAMBDA x : ~SameHostUser(s.obj[x], s.obj[o]))]
        ks == {k \in Range(s.win) : s.term[k].user = s.obj[o].user /\ s.term[k].alias = a}
        s2 == [s1 EXCEPT
                 !.term = [k \in TermIds |-> IF k \in ks THEN [s.term[k] EXCEPT !.st = "closed"]
                                             ELSE s.term[k]],
                 !.win = SelectSeq(@, LAMBDA k : k \notin ks),
                 !.closeEv = @ \cup ks]
        s3 == IF s.sel # 0 /\ SameHostUser(s.obj[s.sel], s.obj[o])
              THEN [s2 EXCEPT !.sel = 0] ELSE s2
    IN IF s.obj[o].user = None THEN Notice(s, "hostUserRequired", a)
       ELSE Notice(s3, "removed", a)

\* moveConnectionToFolder that restores the session on the first entry of the
\* reloaded list instead of the entry of the same host and user
MoveRestoreToFirst(s, t, folderName) ==
    LET o  == s.task[t].conn
        s0 == [s EXCEPT !.task[t] = NoTask]
        s1 == [s0 EXCEPT !.obj[o].tag = IF folderName = "" THEN None ELSE folderName]
        s2 == [s1 EXCEPT !.cfg = UpsertBlock(@, BlockOf(s1.obj[o])), !.watch = TRUE]
        s3 == LoadSSHConnections(s2, {o})
        n  == IF s3.conns = <<>> THEN 0 ELSE Head(s3.conns)
        s4 == IF n = 0 THEN s3
              ELSE [s3 EXCEPT !.obj[n].client = s.obj[o].client,
                              !.obj[n].password = s.obj[o].password,
                              !.obj[n].passphrase = s.obj[o].passphrase]
    IN IF folderName = None THEN s0
       ELSE IF ~s3.ok THEN s3
       ELSE Notice(s4, "moved", s.obj[o].alias)

\* moveConnectionToFolder without the restore after the reload
MoveWithoutRestore(s, t, folderName) ==
    LET o  == s.task[t].conn
        s0 == [s EXCEPT !.task[t] = NoTask]
        s1 == [s0 EXCEPT !.obj[o].tag = IF folderName = "" THEN None ELSE folderName]
        s2 == [s1 EXCEPT !.cfg = UpsertBlock(@, BlockOf(s1.obj[o])), !.watch = TRUE]
    IN IF folderName = None THEN s0
       ELSE Notice(LoadSSHConnections(s2, {o}), "moved", s.obj[o].alias)

\* moveConnectionToFolder(treeItem) after the folder box is answered
\* (folderName: None = dismissed, "" = blank, otherwise the tag)
MoveConnectionToFolder(s, t, folderName) ==
    LET o  == s.task[t].conn
        a  == s.obj[o].alias
        s0 == [s EXCEPT !.task[t] = NoTask]
        rp == s.instProv[a]
        s1 == [s0 EXCEPT !.obj[o].tag = IF folderName = "" THEN None ELSE folderName]
        s2 == [s1 EXCEPT !.cfg = UpsertBlock(@, BlockOf(s1.obj[o])), !.watch = TRUE]
        s3 == LoadSSHConnections(s2, {o})
        n  == FirstWith(s3.conns, LAMBDA x : SameHostUser(s3.obj[x], s.obj[o]))
        s4 == IF n = 0 THEN s3
              ELSE [s3 EXCEPT !.obj[n].client = s.obj[o].client,
                              !.obj[n].password = s.obj[o].password,
                              !.obj[n].passphrase = s.obj[o].passphrase]
        s5 == IF n # 0 /\ rp # 0 THEN [s4 EXCEPT !.prov[rp].conn = n] ELSE s4
    IN IF folderName = None THEN s0
       ELSE IF ~s3.ok THEN s3
       ELSE Notice(s5, "moved", a)

\* ------------------------------------------------------ MultiCommandPanel
\* resolveWebviewView: new MultiCommandPanel, setMultiCommandPanel, refresh
ResolveWebviewView(s) ==
    Refresh([s EXCEPT !.panel = [open |-> TRUE, conns |-> <<>>,
                                 cache |-> [a \in Aliases |-> 0]]])

\* the first loop of sendCommandToConnections: the panel's own terminal map
\* is filled from the window's terminals by name and never emptied
FillCache(s) ==
    [a \in Aliases |->
        LET idx == {i \in DOMAIN s.win :
                      /\ s.term[s.win[i]].alias = a
                      /\ \E j \in DOMAIN s.panel.conns :
                            /\ s.obj[s.panel.conns[j]].alias = a
                            /\ s.obj[s.panel.conns[j]].user = s.term[s.win[i]].user}
        IN IF idx = {} THEN s.panel.cache[a]
           ELSE s.win[CHOOSE i \in idx : \A j \in idx : j <= i]]

\* the forEach of sendCommandToConnections over the selected connections;
\* throws: sendText on a disposed terminal raises, which ends the loop
RECURSIVE SendLoop(_, _, _)
SendLoop(s, sel, throws) ==
    IF sel = <<>> THEN s
    ELSE LET a == s.obj[Head(sel)].alias
             k == s.panel.cache[a]
         IN IF k = 0
            THEN SendLoop([Notice(s, "noTerminal", a) EXCEPT !.out.failed = @ \cup {a}],
                          Tail(sel), throws)
            ELSE IF s.term[k].st = "open"
            THEN SendLoop([s EXCEPT !.out.delivered = @ \cup {a}], Tail(sel), throws)
            ELSE IF throws THEN [s EXCEPT !.out.aborted = TRUE]
            ELSE SendLoop(s, Tail(sel), throws)

\* sendCommandToConnections(command, selectedConnectionIds)
SendCommandToConnections(s, ids, throws) ==
    LET s1  == [s EXCEPT !.panel.cache = FillCache(s), !.out.targets = ids]
        sel == SelectSeq(s.panel.conns, LAMBDA o : s.obj[o].alias \in ids)
    IN IF sel = <<>> THEN Notice(s1, "noneSelected", None)
       ELSE SendLoop(s1, sel, throws)

\* ------------------------------------------------------------ remote files
\* openRemoteFile(resourceUri, treeItem) of extension.ts, through
\* RemoteFileProvider.openRemoteFile and openRemoteFileInEditor
OpenRemoteFile(s, a, f) ==
    LET p == s.instProv[a]
        c == IF p = 0 THEN 0 ELSE s.obj[s.prov[p].conn].client
    IN IF p = 0 THEN Notice(s, "noConnectionSelected", a)
       ELSE IF c = 0 \/ s.client[c].st # "ready" THEN Notice(s, "openFailed", a)
       ELSE [s EXCEPT !.prov[p].temp = @ \cup {f}]

\* ======================================================= ~/.ssh/config text
\* The text of a file is content.split('\n'), the sequence of its lines; a
\* line is a sequence of atoms: a blank, a colon, or a word holding neither.
\* An optional field is <<>> (undefined) or <<v>>.
Sp    == " "
Colon == ":"

EmptyText == << <<>> >>

StartsWith(l, p) == Len(l) >= Len(p) /\ SubSeq(l, 1, Len(p)) = p

IsBlank(l) == \A i \in DOMAIN l : l[i] = Sp

RECURSIVE TrimLeft(_)
TrimLeft(l) == IF l # <<>> /\ Head(l) = Sp THEN TrimLeft(Tail(l)) ELSE l

RECURSIVE TrimRight(_)
TrimRight(l) ==
    IF l # <<>> /\ l[Len(l)] = Sp THEN TrimRight(SubSeq(l, 1, Len(l) - 1)) ELSE l

\* String.prototype.trim() of one line
TrimLine(l) == TrimRight(TrimLeft(l))

\* String.prototype.split(sep) of one line
RECURSIVE SplitOn(_, _)
SplitOn(l, sep) ==
    LET hits == {i \in 1..(Len(l) - Len(sep) + 1) : SubSeq(l, i, i + Len(sep) - 1) = sep}
    IN IF hits = {} THEN << l >>
       ELSE LET i == MinOf(hits)
            IN << SubSeq(l, 1, i - 1) >> \o SplitOn(SubSeq(l, i + Len(sep), Len(l)), sep)

\* Array.prototype.join(sep)
RECURSIVE JoinWith(_, _)
JoinWith(ps, sep) ==
    IF ps = <<>> THEN <<>>
    ELSE IF Len(ps) = 1 THEN ps[1]
    ELSE ps[1] \o sep \o JoinWith(Tail(ps), sep)

RECURSIVE DropBlankHead(_)
DropBlankHead(t) == IF t # <<>> /\ IsBlank(Head(t)) THEN DropBlankHead(Tail(t)) ELSE t

RECURSIVE DropBlankTail(_)
DropBlankTail(t) ==
    IF t # <<>> /\ IsBlank(t[Len(t)]) THEN DropBlankTail(SubSeq(t, 1, Len(t) - 1)) ELSE t

\* String.prototype.trim() of a whole text
TrimText(t) ==
    LET m == DropBlankTail(DropBlankHead(t))
    IN IF m = <<>> THEN EmptyText
       ELSE [i \in 1..Len(m) |->
               LET l1 == IF i = 1 THEN TrimLeft(m[i]) ELSE m[i]
               IN IF i = Len(m) THEN TrimRight(l1) ELSE l1]

\* `${text.trim()}\n`
TrimmedWithNewline(t) == TrimText(t) \o << <<>> >>

\* .replace(/\n{3,}/g, '\n\n'): two or more empty lines in a row become one
\* (a run at either end of the text is cut by the trim that follows)
RECURSIVE Collapse(_)
Collapse(t) ==
    IF Len(t) < 2 THEN t
    ELSE IF t[1] = <<>> /\ t[2] = <<>> THEN Collapse(Tail(t))
    ELSE << t[1] >> \o Collapse(Tail(t))

\* beautifySSHConfig(): the loop over the lines
RECURSIVE BeautifyLoop(_, _, _)
BeautifyLoop(lines, formattedLines, insideHostBlock) ==
    IF lines = <<>> THEN formattedLines
    ELSE LET line == Head(lines)
             f    == formattedLines
         IN IF StartsWith(TrimLine(line), <<"Host", Sp>>)
            THEN BeautifyLoop(Tail(lines),
                    (IF f # <<>> /\ ~IsBlank(f[Len(f)]) THEN Append(f, <<>>) ELSE f)
                       \o << TrimLine(line) >>,
                    TRUE)
            ELSE IF insideHostBlock /\ ~IsBlank(line) /\ ~StartsWith(line, <<Sp>>)
            THEN BeautifyLoop(Tail(lines), Append(f, <<Sp, Sp>> \o TrimLine(line)), TRUE)
            ELSE BeautifyLoop(Tail(lines), Append(f, line),
                              insideHostBlock /\ ~IsBlank(line))

\* beautifySSHConfig()
BeautifySSHConfig(t) == TrimmedWithNewline(Collapse(BeautifyLoop(t, <<>>, FALSE)))

\* ------------------------------------------------------------ one record
IsDef(o) == o # <<>>

NoConnection(host) ==
    [host |-> host, hostname |-> <<>>, user |-> <<>>, port |-> <<>>,
     identityFile |-> <<>>, proxyCommand |-> <<>>, forwardAgent |-> <<>>,
     localForward |-> <<>>, remoteForward |-> <<>>, compression |-> <<>>,
     serverAliveInterval |-> <<>>, serverAliveCountMax |-> <<>>,
     logLevel |-> <<>>, vFolderTag |-> <<>>]

\* `  ${key} ${value}` when the option holds a non-empty string
StrLine(key, o) ==
    IF IsDef(o) /\ o[1] # <<>> THEN << <<Sp, Sp, key, Sp>> \o o[1] >> ELSE <<>>

\* the same for a number other than 0
NumLine(key, o) ==
    IF IsDef(o) /\ o[1] # 0 THEN << <<Sp, Sp, key, Sp, ToString(o[1])>> >> ELSE <<>>

\* the same for a boolean that is not undefined
BoolLine(key, o) ==
    IF IsDef(o) THEN << <<Sp, Sp, key, Sp, IF o[1] THEN "yes" ELSE "no">> >> ELSE <<>>

\* buildConnectionEntry writing every string field the object passed in
\* holds, the password and the passphrase of an in-memory connection included
BuildConnectionEntryAllFields(c) ==
    << <<"Host", Sp>> \o c.host >>
    \o << <<Sp, Sp, "HostName", Sp>> \o c.hostname >>
    \o StrLine("User", c.user)
    \o StrLine("IdentityFile", c.identityFile)
    \o (IF "password" \in DOMAIN c THEN StrLine("Password", c.password) ELSE <<>>)
    \o (IF "passphrase" \in DOMAIN c THEN StrLine("Passphrase", c.passphrase) ELSE <<>>)

\* buildConnectionEntry(connection), as lines
BuildConnectionEntry(c) ==
    << <<"Host", Sp>> \o c.host >>
    \o (IF IsDef(c.vFolderTag) /\ c.vFolderTag[1] # <<>>
        THEN << <<Sp, Sp, "#", Sp, "vFolderTag", Colon, Sp>> \o c.vFolderTag[1] >>
        ELSE <<>>)
    \o << <<Sp, Sp, "HostName", Sp>> \o c.hostname >>
    \o StrLine("User", c.user)
    \o NumLine("Port", c.port)
    \o StrLine("IdentityFile", c.identityFile)
    \o StrLine("ProxyCommand", c.proxyCommand)
    \o BoolLine("ForwardAgent", c.forwardAgent)
    \o StrLine("LocalForward", c.localForward)
    \o StrLine("RemoteForward", c.remoteForward)
    \o BoolLine("Compression", c.compression)
    \o NumLine("ServerAliveInterval", c.serverAliveInterval)
    \o NumLine("ServerAliveCountMax", c.serverAliveCountMax)
    \o StrLine("LogLevel", c.logLevel)

\* the second piece of line.split(' ')
HostOfLine(line) == SplitOn(line, <<Sp>>)[2]

IsHostLine(line) == StartsWith(line, <<"Host", Sp>>)

\* insertOrUpdateConnection(connection): the loop over the lines
RECURSIVE UpsertLoop(_, _, _, _, _)
UpsertLoop(lines, c, updatedContent, isTargetHost, isUpdated) ==
    IF lines = <<>> THEN [text |-> updatedContent, isUpdated |-> isUpdated]
    ELSE LET line  == Head(lines)
             flush == IsHostLine(line) /\ isTargetHost
             u1    == IF flush THEN updatedContent \o BuildConnectionEntry(c)
                      ELSE updatedContent
             upd   == isUpdated \/ flush
             tgt   == IF IsHostLine(line) THEN HostOfLine(line) = c.host
                      ELSE isTargetHost
         IN UpsertLoop(Tail(lines), c,
                       IF ~tgt \/ upd THEN Append(u1, line) ELSE u1, tgt, upd)

\* the lines of t outside the block of host
RECURSIVE KeepOthers(_, _, _)
KeepOthers(lines, host, inside) ==
    IF lines = <<>> THEN <<>>
    ELSE LET in1 == IF IsHostLine(Head(lines)) THEN HostOfLine(Head(lines)) = host
                    ELSE inside
         IN (IF in1 THEN <<>> ELSE << Head(lines) >>) \o KeepOthers(Tail(lines), host, in1)

\* insertOrUpdateConnection that drops the old block and appends the new one
InsertOrUpdateAtEnd(t, c) ==
    BeautifySSHConfig(TrimmedWithNewline(
        KeepOthers(t, c.host, FALSE) \o << <<>> >> \o BuildConnectionEntry(c)))

\* insertOrUpdateConnection(connection)
InsertOrUpdateConnection(t, c) ==
    LET r == UpsertLoop(t, c, <<>>, FALSE, FALSE)
        u == IF r.isUpdated THEN r.text
             ELSE r.text \o << <<>> >> \o BuildConnectionEntry(c)
    IN BeautifySSHConfig(TrimmedWithNewline(u))

RECURSIVE PopComments(_)
PopComments(ls) ==
    IF ls # <<>> /\ StartsWith(TrimLine(ls[Len(ls)]), <<"#">>)
    THEN PopComments(SubSeq(ls, 1, Len(ls) - 1)) ELSE ls

\* removeConnection whose loop never leaves the block it skips
RECURSIVE RemoveLoopToEnd(_, _, _, _)
RemoveLoopToEnd(lines, host, updatedLines, insideHostBlock) ==
    IF lines = <<>> THEN updatedLines
    ELSE LET line == Head(lines)
         IN IF IsHostLine(line) /\ HostOfLine(line) = host
            THEN RemoveLoopToEnd(Tail(lines), host, PopComments(updatedLines), TRUE)
            ELSE RemoveLoopToEnd(Tail(lines), host,
                                 IF insideHostBlock THEN updatedLines
                                 ELSE Append(updatedLines, line),
                                 insideHostBlock)

\* removeConnection(host): the loop over the lines
RECURSIVE RemoveLoop(_, _, _, _)
RemoveLoop(lines, host, updatedLines, insideHostBlock) ==
    IF lines = <<>> THEN updatedLines
    ELSE LET line == Head(lines)
         IN IF IsHostLine(line) /\ HostOfLine(line) = host
            THEN RemoveLoop(Tail(lines), host, PopComments(updatedLines), TRUE)
            ELSE LET in1 == insideHostBlock /\ ~IsHostLine(line)
                 IN RemoveLoop(Tail(lines), host,
                               IF in1 THEN updatedLines ELSE Append(updatedLines, line),
                               in1)

\* removeConnection(host) of sshUtils
RemoveConnectionText(t, host) ==
    BeautifySSHConfig(TrimmedWithNewline(RemoveLoop(t, host, <<>>, FALSE)))

\* the numbers the records of the model use
Numbers == {0, 22, 60, 2222}

\* parseInt(value, 10); << -1 >> stands for NaN
ParseInt(v) ==
    IF \E n \in Numbers : v = << ToString(n) >>
    THEN << CHOOSE n \in Numbers : v = << ToString(n) >> >>
    ELSE << -1 >>

\* the switch of getAllConnections on one line of the current block
ParseLine(cur, line) ==
    LET ps    == SplitOn(TrimLine(line), <<Sp>>)
        key   == ps[1]
        value == JoinWith(Tail(ps), <<Sp>>)
        tag   == SplitOn(value, <<Colon, Sp>>)
    IN CASE key = <<"HostName">> -> [cur EXCEPT !.hostname = value]
         [] key = <<"User">> -> [cur EXCEPT !.user = <<value>>]
         [] key = <<"Port">> -> [cur EXCEPT !.port = ParseInt(value)]
         [] key = <<"IdentityFile">> -> [cur EXCEPT !.identityFile = <<value>>]
         [] key = <<"ProxyCommand">> -> [cur EXCEPT !.proxyCommand = <<value>>]
         [] key = <<"ForwardAgent">> -> [cur EXCEPT !.forwardAgent = << (value = <<"yes">>) >>]
         [] key = <<"LocalForward">> -> [cur EXCEPT !.localForward = <<value>>]
         [] key = <<"RemoteForward">> -> [cur EXCEPT !.remoteForward = <<value>>]
         [] key = <<"Compression">> -> [cur EXCEPT !.compression = << (value = <<"yes">>) >>]
         [] key = <<"ServerAliveInterval">> ->
                [cur EXCEPT !.serverAliveInterval = ParseInt(value)]
         [] key = <<"ServerAliveCountMax">> ->
                [cur EXCEPT !.serverAliveCountMax = ParseInt(value)]
         [] key = <<"LogLevel">> -> [cur EXCEPT !.logLevel = <<value>>]
         [] key = <<"#">> /\ StartsWith(value, <<"vFolderTag", Colon>>) ->
                [cur EXCEPT !.vFolderTag = IF Len(tag) >= 2 THEN << tag[2] >> ELSE <<>>]
         [] OTHER -> cur

\* getAllConnections(): the loop over the lines; cur is <<>> or <<record>>
RECURSIVE ParseLoop(_, _, _)
ParseLoop(lines, conns, cur) ==
    IF lines = <<>> THEN conns \o cur
    ELSE LET line == Head(lines)
         IN IF IsHostLine(line)
            THEN ParseLoop(Tail(lines), conns \o cur, << NoConnection(HostOfLine(line)) >>)
            ELSE IF cur # <<>>
            THEN ParseLoop(Tail(lines), conns, << ParseLine(cur[1], line) >>)
            ELSE ParseLoop(Tail(lines), conns, cur)

\* getAllConnections()
GetAllConnections(t) == ParseLoop(t, <<>>, <<>>)

\* ------------------------------------------- the Config Store on its own
ConfigHosts == {"a", "b", "c"}

\* what addSSHConnection writes for a password connection
Plain(h) == [NoConnection(<<h>>) EXCEPT !.hostname = <<"h">>, !.port = <<22>>]

\* a key connection in a nested folder with tuning fields
Full(h) ==
    [NoConnection(<<h>>) EXCEPT
        !.hostname = <<"10.0.0.1">>, !.user = << <<"u">> >>, !.port = <<2222>>,
        !.identityFile = << <<"~/.ssh/k">> >>,
        !.proxyCommand = << <<"ssh", Sp, "-W", Sp, "gw">> >>,
        !.forwardAgent = <<FALSE>>, !.compression = <<TRUE>>,
        !.serverAliveInterval = <<60>>, !.logLevel = << <<"DEBUG">> >>,
        !.vFolderTag = << <<"s/t">> >>]

\* a connection moved to the folder the user typed as "x: y"
Tagged(h) ==
    [Plain(h) EXCEPT !.user = << <<"u">> >>,
                     !.vFolderTag = << <<"x", Colon, Sp, "y">> >>]

Records == UNION {{Plain(h), Full(h), Tagged(h)} : h \in ConfigHosts}

\* the hosts of the blocks of a text, in file order
RECURSIVE HostsOf(_)
HostsOf(conns) == IF conns = <<>> THEN <<>> ELSE << Head(conns).host >> \o HostsOf(Tail(conns))

HostOrder(t) == HostsOf(GetAllConnections(t))

RECURSIVE FirstAt(_, _, _)
FirstAt(hosts, host, i) ==
    IF hosts = <<>> THEN 0
    ELSE IF Head(hosts) = host THEN i ELSE FirstAt(Tail(hosts), host, i + 1)

PositionOf(t, host) == FirstAt(HostOrder(t), host, 1)

NoOp == [kind |-> "none", at |-> 0, blocks |-> 0]

\* ----------------------------------------------------------- idle parts
\* no write of the config text has happened
StoreIdle ==
    /\ text = EmptyText
    /\ saved = [h \in ConfigHosts |-> <<>>]
    /\ lastOp = NoOp
    /\ ops = 0

\* no remote directory has been read, no remote file has been opened
BrowserIdle ==
    /\ listing = <<>> /\ shown = <<>>
    /\ tempFileMap = [l \in LocalPaths |-> NoPath]
    /\ localFiles = {} /\ editors = {}
    /\ uploads = <<>> /\ uploaded = <<>>
    /\ edits = 0

\* the registry of an extension activated on an empty config file
RegistryIdle ==
    /\ cfg = <<>>
    /\ watch = FALSE
    /\ known = [h \in Hosts |-> <<>>]
    /\ hostKey = [h \in Hosts |-> "F1"]
    /\ obj = [o \in ObjIds |-> NoObj]
    /\ connections = <<>>
    /\ selected = 0
    /\ terminals = [a \in Aliases |-> 0]
    /\ instProv = [a \in Aliases |-> 0]
    /\ statProv = [a \in Aliases |-> 0]
    /\ prov = [p \in ProvIds |-> NoProv]
    /\ client = [c \in ClientIds |-> NoClient]
    /\ term = [k \in TermIds |-> NoTerm]
    /\ winTerms = <<>>
    /\ closeEv = {}
    /\ panel = [open |-> FALSE, conns |-> <<>>, cache |-> [a \in Aliases |-> 0]]
    /\ task = [t \in TaskIds |-> NoTask]
    /\ item = [a \in Aliases |-> NoItem]
    /\ left = 0
    /\ out = NoOut

\* upsert and removeByAlias as the only writers of the file
UpsertRecord(c) ==
    /\ ops < MaxOps
    /\ text' = InsertOrUpdateConnection(text, c)
    /\ saved' = [saved EXCEPT ![c.host[1]] = << c >>]
    /\ lastOp' = [kind |-> "upsert", at |-> PositionOf(text, c.host),
                  blocks |-> Len(HostOrder(text))]
    /\ ops' = ops + 1
    /\ UNCHANGED <<regVars, fileVars, editVars>>

\* removeConnection(host) is reached from a tree item, so the alias has a block
RemoveRecord(h) ==
    /\ ops < MaxOps
    /\ PositionOf(text, <<h>>) # 0
    /\ text' = RemoveConnectionText(text, <<h>>)
    /\ saved' = [saved EXCEPT ![h] = <<>>]
    /\ lastOp' = [kind |-> "remove", at |-> PositionOf(text, <<h>>),
                  blocks |-> Len(HostOrder(text))]
    /\ ops' = ops + 1
    /\ UNCHANGED <<regVars, fileVars, editVars>>

InitConfig == RegistryIdle /\ StoreIdle /\ BrowserIdle

NextConfig ==
    \/ \E c \in Records : UpsertRecord(c)
    \/ \E h \in ConfigHosts : RemoveRecord(h)

SpecConfig == InitConfig /\ [][NextConfig]_vars

\* ------------------------------------ a config file other tools have written
MaxSharedOps == 2

\* the folder-tag comment on a line of its own above a block
TagLine(tag) == <<"#", Sp, "vFolderTag", Colon, Sp>> \o tag

\* a block with its folder-tag comment (if any) on the line above the Host line
Annotated(h, tag) ==
    (IF IsDef(tag) THEN << TagLine(tag[1]) >> ELSE <<>>)
    \o << <<"Host", Sp, h>>, <<Sp, Sp, "HostName", Sp, "h">> >>

SharedTags == {<<>>, << <<"s">> >>, << <<"t">> >>}

\* two blocks, with and without a blank line between them
SharedTexts ==
    {Annotated("a", x) \o gap \o Annotated("b", y) \o << <<>> >> :
        x \in SharedTags, y \in SharedTags, gap \in {<<>>, << <<>> >>}}

\* the extension is activated on a file it has not written itself
InitShared ==
    /\ RegistryIdle /\ BrowserIdle
    /\ text \in SharedTexts
    /\ saved = [h \in ConfigHosts |-> <<>>]
    /\ lastOp = NoOp
    /\ ops = MaxOps - MaxSharedOps

SpecShared == InitShared /\ [][NextConfig]_vars

\* ------------------------------------------------- remote directory list
\* A file name is a sequence of letters.
Lower(ch) == CASE ch = "A" -> "a" [] ch = "B" -> "b" [] OTHER -> ch

\* String.prototype.toLowerCase()
ToLowerCase(name) == [i \in DOMAIN name |-> Lower(name[i])]

\* the collation order of the letters that are left after toLowerCase()
LetterOrd(ch) == CASE ch = "a" -> 1 [] ch = "b" -> 2

\* x.localeCompare(y): negative, zero or positive
RECURSIVE LocaleCompare(_, _)
LocaleCompare(x, y) ==
    IF x = <<>> THEN (IF y = <<>> THEN 0 ELSE -1)
    ELSE IF y = <<>> THEN 1
    ELSE IF LetterOrd(Head(x)) < LetterOrd(Head(y)) THEN -1
    ELSE IF LetterOrd(Head(x)) > LetterOrd(Head(y)) THEN 1
    ELSE LocaleCompare(Tail(x), Tail(y))

\* the comparator of sortRemoteFiles
ByLowerName(a, b) == LocaleCompare(ToLowerCase(a.filename), ToLowerCase(b.filename))

\* Array.prototype.sort((a, b) => ...) with that comparator; the sort is stable
RECURSIVE SortByLowerName(_)
SortByLowerName(list) ==
    IF list = <<>> THEN <<>>
    ELSE LET rest == SortByLowerName(SubSeq(list, 1, Len(list) - 1))
             x    == list[Len(list)]
             n    == Cardinality({i \in DOMAIN rest : ByLowerName(rest[i], x) <= 0})
         IN SubSeq(rest, 1, n) \o << x >> \o SubSeq(rest, n + 1, Len(rest))

\* sortRemoteFiles without the split into directories and files
SortRemoteFilesUngrouped(list) == SortByLowerName(list)

\* sortRemoteFiles(list)
SortRemoteFiles(list) ==
    SortByLowerName(SelectSeq(list, LAMBDA e : e.isDirectory))
    \o SortByLowerName(SelectSeq(list, LAMBDA e : ~e.isDirectory))

FileNames == { <<"a">>, <<"A">>, <<"B">>, <<"b", "a">> }

Entries == [filename : FileNames, isDirectory : BOOLEAN]

\* what readRemoteDirectory can return: entries with distinct names, any order
Listings ==
    UNION { {l \in [1..n -> Entries] :
                \A i, j \in 1..n : i # j => l[i].filename # l[j].filename}
            : n \in 0..MaxEntries }

\* fetchRemoteFiles(remotePath): the directory is read, the list is sorted and
\* kept in fileLists
FetchRemoteFiles ==
    /\ \E l \in Listings : listing' = l /\ shown' = SortRemoteFiles(l)
    /\ UNCHANGED <<regVars, storeVars, editVars>>

InitSort == RegistryIdle /\ StoreIdle /\ BrowserIdle

NextSort == FetchRemoteFiles

SpecSort == InitSort /\ [][NextSort]_vars

\* ================================================================ registry
\* The state after activation: the config file holds a password record "A"
\* without User and a key record "B" with User, and loadSSHConnections() has
\* run once.
InitCfg == << [alias |-> "A", user |-> None, key |-> FALSE, tag |-> None],
              [alias |-> "B", user |-> "u",  key |-> TRUE,  tag |-> None] >>

Init ==
    /\ cfg = InitCfg
    /\ watch = FALSE
    /\ known \in [Hosts -> {<<>>, <<"F1">>}]
    /\ hostKey = [h \in Hosts |-> "F1"]
    /\ obj = [o \in ObjIds |-> IF o <= Len(InitCfg) THEN FreshObj(InitCfg[o]) ELSE NoObj]
    /\ connections = <<1, 2>>
    /\ selected = 0
    /\ terminals = [a \in Aliases |-> 0]
    /\ instProv = [a \in Aliases |-> 0]
    /\ statProv = [a \in Aliases |-> 0]
    /\ prov = [p \in ProvIds |-> NoProv]
    /\ client = [c \in ClientIds |-> NoClient]
    /\ term = [k \in TermIds |-> NoTerm]
    /\ winTerms = <<>>
    /\ closeEv = {}
    /\ panel = [open |-> FALSE, conns |-> <<>>, cache |-> [a \in Aliases |-> 0]]
    /\ task = [t \in TaskIds |-> NoTask]
    /\ item = [a \in Aliases |->
                 [conn |-> AliasOrd(a), connected |-> FALSE]]
    /\ left = MaxCmds
    /\ out = NoOut
    /\ StoreIdle /\ BrowserIdle

KeyFiles == {"missing", "unreadable", "encrypted", "plain"}
ToolResults == {"ok", "none", "reject"}

\* The user acts on the tree, a notification or the panel only while no input
\* box is open: an input box is dismissed as soon as it loses the focus.
NoPrompt == \A t \in TaskIds : ~PromptOpen(task[t])

CanCommand == left > 0 /\ NoPrompt

\* What the user may answer in a box: a hidden box only ever yields undefined.
Answers(t, vals) == IF task[t].hidden THEN {None} ELSE vals \cup {None}

\* command sshMultiConnect.connect, offered on an item shown as disconnected
ConnectOut(a) ==
    {Connect(CmdCur, FreeTask, item[a].conn, keyFile, net) :
        keyFile \in KeyFiles, net \in BOOLEAN}

ConnectCmd(a) ==
    /\ CanCommand
    /\ item[a].conn # 0 /\ ~item[a].connected
    /\ FreeTask # 0
    /\ \E r \in ConnectOut(a) : Commit(r)

\* the warning 'host key has changed' is answered Yes, or No / dismissed
ConfirmOut(t, yes) ==
    {AnswerConfirm(Cur, t, yes, keyFile, net) : keyFile \in KeyFiles, net \in BOOLEAN}

ConfirmAnswered(t) ==
    /\ NoPrompt
    /\ task[t].pc = "confirm"
    /\ \E yes \in BOOLEAN : \E r \in ConfirmOut(t, yes) : Commit(r)

UserOut(t) ==
    {AnswerUser(Cur, t, ans, keyFile, net) :
        ans \in Answers(t, {"u"}), keyFile \in KeyFiles, net \in BOOLEAN}

UserAnswered(t) ==
    /\ task[t].pc = "user"
    /\ \E r \in UserOut(t) : Commit(r)

PassOut(t) ==
    {AnswerPass(Cur, t, ans, net) : ans \in Answers(t, {"pw"}), net \in BOOLEAN}

PassAnswered(t) ==
    /\ task[t].pc = "pass"
    /\ \E r \in PassOut(t) : Commit(r)

\* isSSHPassInstalled() settles
ToolOut(t) ==
    {IF obj[task[t].conn].key THEN SSHKeyProceed(Cur, t, tool, keyFile, net)
                              ELSE PasswordProceed(Cur, t, tool, net) :
        tool \in ToolResults, keyFile \in KeyFiles, net \in BOOLEAN}

ToolChecked(t) ==
    /\ task[t].pc = "tool"
    /\ \E r \in ToolOut(t) : Commit(r)

PhraseOut(t) ==
    {AnswerPhrase(Cur, t, ans, net) : ans \in Answers(t, {"pp"}), net \in BOOLEAN}

PhraseAnswered(t) ==
    /\ task[t].pc = "phrase"
    /\ \E r \in PhraseOut(t) : Commit(r)

\* the Client emits 'ready'
ClientReady(c) ==
    /\ client[c].st = "connecting"
    /\ Commit(RunReady([Cur EXCEPT !.client[c].st = "ready"], client[c].ready))

\* the Client emits 'error' (authentication refused, protocol error, timeout)
ErrorOut(c) == RunError([Cur EXCEPT !.client[c].st = "closed"], client[c].errs)

ClientError(c) ==
    /\ LiveClient(client[c])
    /\ Commit(ErrorOut(c))

\* command sshMultiConnect.disconnect, offered on an item shown as connected
DisconnectCmd(a) ==
    /\ CanCommand
    /\ item[a].conn # 0 /\ item[a].connected
    /\ Commit(Disconnect(CmdCur, item[a].conn))

\* a click on a tree item
SelectCmd(a) ==
    /\ CanCommand
    /\ item[a].conn # 0
    /\ \E throws \in BOOLEAN : Commit(SelectConnection(CmdCur, item[a].conn, throws))

\* a terminal is closed by the user or its ssh process exits
TerminalCloses(k) ==
    /\ left > 0
    /\ term[k].st = "open"
    /\ Commit(Dispose(CmdCur, k))

\* onDidCloseTerminal is delivered to its two subscribers (the provider's
\* constructor and registerEventListeners), both call handleTerminalClose
TerminalClosed(k) ==
    /\ k \in closeEv
    /\ Commit(HandleTerminalClose(
                HandleTerminalClose([Cur EXCEPT !.closeEv = @ \ {k}], k), k))

\* onDidChangeActiveTerminal
TerminalActivated(k) ==
    /\ CanCommand
    /\ term[k].st = "open"
    /\ \E throws \in BOOLEAN : Commit(HandleTerminalSelectionChange(CmdCur, k, throws))

RemoveCmd(a) ==
    /\ CanCommand
    /\ item[a].conn # 0
    /\ Commit(RemoveConnection(CmdCur, item[a].conn))

\* command sshMultiConnect.moveToFolder: the folder box opens
MoveCmd(a) ==
    /\ CanCommand
    /\ item[a].conn # 0
    /\ FreeTask # 0
    /\ Commit(OpenPrompt([CmdCur EXCEPT !.task[FreeTask] =
                            [NoTask EXCEPT !.conn = item[a].conn]], FreeTask, "folder"))

FolderAnswered(t) ==
    /\ task[t].pc = "folder"
    /\ \E ans \in Answers(t, {"", "t"}) : Commit(MoveConnectionToFolder(Cur, t, ans))

\* the watcher of monitorSSHConfigFile reports a change of the config file
ConfigFileChanged ==
    /\ watch
    /\ Commit(LoadSSHConnections([Cur EXCEPT !.watch = FALSE], {}))

PanelResolved ==
    /\ CanCommand
    /\ ~panel.open
    /\ Commit(ResolveWebviewView(CmdCur))

\* the webview posts a command for the connections ticked in its list
SendCmd ==
    /\ CanCommand
    /\ panel.open
    /\ \E ids \in SUBSET {obj[panel.conns[i]].alias : i \in DOMAIN panel.conns},
          throws \in BOOLEAN :
          Commit(SendCommandToConnections(CmdCur, ids, throws))

\* a click on a file of the remote files view (it changes no session, so it
\* is not counted in left)
OpenFileCmd(a) ==
    /\ NoPrompt
    /\ selected # 0 /\ obj[selected].alias = a
    /\ \E f \in Files : Commit(OpenRemoteFile(Cur, a, f))

\* the server is re-installed: it presents another host key from now on
HostKeyRotates(h) ==
    /\ left > 0
    /\ \E fp \in Fingerprints \ {hostKey[h]} :
          Commit([CmdCur EXCEPT !.hostKey[h] = fp])

Next ==
    \/ \E a \in Aliases : ConnectCmd(a)
    \/ \E t \in TaskIds : ConfirmAnswered(t)
    \/ \E t \in TaskIds : UserAnswered(t)
    \/ \E t \in TaskIds : PassAnswered(t)
    \/ \E t \in TaskIds : ToolChecked(t)
    \/ \E t \in TaskIds : PhraseAnswered(t)
    \/ \E c \in ClientIds : ClientReady(c)
    \/ \E c \in ClientIds : ClientError(c)
    \/ \E a \in Aliases : DisconnectCmd(a)
    \/ \E a \in Aliases : SelectCmd(a)
    \/ \E k \in TermIds : TerminalCloses(k)
    \/ \E k \in TermIds : TerminalClosed(k)
    \/ \E k \in TermIds : TerminalActivated(k)
    \/ \E a \in Aliases : RemoveCmd(a)
    \/ \E a \in Aliases : MoveCmd(a)
    \/ \E t \in TaskIds : FolderAnswered(t)
    \/ ConfigFileChanged
    \/ PanelResolved
    \/ SendCmd
    \/ \E a \in Aliases : OpenFileCmd(a)
    \/ \E h \in Hosts : HostKeyRotates(h)

Spec == Init /\ [][Next]_vars

\* ------------------------------------------------------------ panel in use
\* The multi command view is visible from activation on (resolveWebviewView
\* has run), both hosts are in known_hosts, and the user works with
\* connect, the terminals and the panel only.
InitPanel ==
    /\ cfg = InitCfg
    /\ watch = FALSE
    /\ known = [h \in Hosts |-> <<"F1">>]
    /\ hostKey = [h \in Hosts |-> "F1"]
    /\ obj = [o \in ObjIds |-> IF o <= Len(InitCfg) THEN FreshObj(InitCfg[o]) ELSE NoObj]
    /\ connections = <<1, 2>>
    /\ selected = 0
    /\ terminals = [a \in Aliases |-> 0]
    /\ instProv = [a \in Aliases |-> 0]
    /\ statProv = [a \in Aliases |-> 0]
    /\ prov = [p \in ProvIds |-> NoProv]
    /\ client = [c \in ClientIds |-> NoClient]
    /\ term = [k \in TermIds |-> NoTerm]
    /\ winTerms = <<>>
    /\ closeEv = {}
    /\ panel = [open |-> TRUE, conns |-> <<>>, cache |-> [a \in Aliases |-> 0]]
    /\ task = [t \in TaskIds |-> NoTask]
    /\ item = [a \in Aliases |->
                 [conn |-> AliasOrd(a), connected |-> FALSE]]
    /\ left = MaxPanelCmds
    /\ out = NoOut
    /\ StoreIdle /\ BrowserIdle

NextPanel ==
    \/ \E a \in Aliases : ConnectCmd(a)
    \/ \E t \in TaskIds : UserAnswered(t)
    \/ \E t \in TaskIds : PassAnswered(t)
    \/ \E t \in TaskIds : ToolChecked(t)
    \/ \E t \in TaskIds : PhraseAnswered(t)
    \/ \E c \in ClientIds : ClientReady(c)
    \/ \E k \in TermIds : TerminalCloses(k)
    \/ \E k \in TermIds : TerminalClosed(k)
    \/ SendCmd

SpecPanel == InitPanel /\ [][NextPanel]_vars

\* -------------------------------------------- remote files in the editor
\* One RemoteFileProvider with its sftp channel, on its own.
Ed == [tempFileMap |-> tempFileMap, localFiles |-> localFiles, editors |-> editors,
       uploads |-> uploads, uploaded |-> uploaded]

\* openRemoteFileInEditor(resourceUri): download, register the mapping, open
\* the editor
OpenRemoteFileInEditor(e, r) ==
    [e EXCEPT !.localFiles = @ \cup {LocalPathOf(r)},
              !.tempFileMap[LocalPathOf(r)] = r,
              !.editors = @ \cup {LocalPathOf(r)}]

\* onDidSaveTextDocument that drops the copy and the mapping before the
\* upload has been answered
OnDidSaveDeleteFirst(e, l) ==
    IF e.tempFileMap[l] = NoPath THEN e
    ELSE [e EXCEPT !.uploads = Append(@, [file |-> l, remote |-> e.tempFileMap[l]]),
                   !.localFiles = @ \ {l},
                   !.tempFileMap[l] = NoPath]

\* onDidSaveTextDocument(document) up to its await of uploadRemoteFile
OnDidSaveTextDocument(e, l) ==
    IF e.tempFileMap[l] = NoPath THEN e
    ELSE [e EXCEPT !.uploads = Append(@, [file |-> l, remote |-> e.tempFileMap[l]])]

RemoveAt(seq, i) == SubSeq(seq, 1, i - 1) \o SubSeq(seq, i + 1, Len(seq))

\* fileUtils.deleteFile(filePath) and tempFileMap.delete(filePath) in one
\* try block: unlink of a file that is gone rejects and the mapping stays
DeleteTemp(e, l) ==
    IF l \in e.localFiles
    THEN [e EXCEPT !.localFiles = @ \ {l}, !.tempFileMap[l] = NoPath]
    ELSE e

\* onDidSaveTextDocument after the await: fastPut has called back (ok: without
\* an error); a rejection ends the handler
AfterUpload(e, i, ok) ==
    LET u == e.uploads[i]
        e1 == [e EXCEPT !.uploads = RemoveAt(@, i)]
    IN IF ~ok THEN e1
       ELSE DeleteTemp([e1 EXCEPT !.uploaded = Append(@, <<u.file, u.remote>>)], u.file)

\* onDidCloseTextDocument(document)
OnDidCloseTextDocument(e, l) ==
    IF e.tempFileMap[l] = NoPath THEN e ELSE DeleteTemp(e, l)

\* cleanup(): the editors of the mapped files are closed, the files are
\* deleted, the map is cleared
CleanupTempFiles(e) ==
    LET keys == {l \in LocalPaths : e.tempFileMap[l] # NoPath}
    IN [e EXCEPT !.editors = @ \ keys,
                 !.localFiles = @ \ keys,
                 !.tempFileMap = [l \in LocalPaths |-> NoPath]]

EditDone(e) ==
    /\ tempFileMap' = e.tempFileMap
    /\ localFiles' = e.localFiles
    /\ editors' = e.editors
    /\ uploads' = e.uploads
    /\ uploaded' = e.uploaded
    /\ UNCHANGED <<regVars, storeVars, fileVars>>

\* a click on a file of the remote files view, the download succeeds
FileOpened(r) ==
    /\ edits < MaxEdits
    /\ edits' = edits + 1
    /\ EditDone(OpenRemoteFileInEditor(Ed, r))

\* the user saves the editor of a temp file: the editor writes the file, then
\* the event is delivered
DocumentSaved(l) ==
    /\ edits < MaxEdits /\ Len(uploads) < MaxUploads
    /\ l \in editors
    /\ edits' = edits + 1
    /\ EditDone(OnDidSaveTextDocument([Ed EXCEPT !.localFiles = @ \cup {l}], l))

\* the callback of fastPut
UploadSettled(i) ==
    /\ i \in DOMAIN uploads
    /\ edits' = edits
    /\ \E ok \in BOOLEAN : EditDone(AfterUpload(Ed, i, ok))

\* the user closes the editor of a temp file
DocumentClosed(l) ==
    /\ edits < MaxEdits
    /\ l \in editors
    /\ edits' = edits + 1
    /\ EditDone(OnDidCloseTextDocument([Ed EXCEPT !.editors = @ \ {l}], l))

\* disconnect of the alias calls cleanup() of its file browser
BrowserCleanedUp ==
    /\ edits < MaxEdits
    /\ edits' = edits + 1
    /\ EditDone(CleanupTempFiles(Ed))

InitEditor == RegistryIdle /\ StoreIdle /\ BrowserIdle

NextEditor ==
    \/ \E r \in RemotePaths : FileOpened(r)
    \/ \E l \in LocalPaths : DocumentSaved(l)
    \/ \E i \in 1..MaxUploads : UploadSettled(i)
    \/ \E l \in LocalPaths : DocumentClosed(l)
    \/ BrowserCleanedUp

SpecEditor == InitEditor /\ [][NextEditor]_vars

\* ------------------------------------------------------- adding a connection
MaxAddCmds == 4

\* what the Username box returns: undefined when dismissed, the empty string
\* when accepted empty, otherwise the text
EmptyString == ""
UserInputs == {None, EmptyString, "u"}

\* buildConnectionEntry writes a User line only for a truthy user, and
\* getAllConnections reads a missing line back as undefined
PersistedUser(u) == IF u = EmptyString THEN None ELSE u

\* connections.filter((conn, index, self) => index === self.findIndex(same
\* host and same user)): the first entry of every (host, user) pair stays
UniqueConnections(s) ==
    LET idx == {i \in DOMAIN s.conns :
                  \A j \in 1..(i - 1) :
                      ~SameHostUser(s.obj[s.conns[j]], s.obj[s.conns[i]])}
        pick[n \in 0..Len(s.conns)] ==
            IF n = 0 THEN <<>>
            ELSE IF n \in idx THEN Append(pick[n - 1], s.conns[n]) ELSE pick[n - 1]
    IN pick[Len(s.conns)]

\* addSSHConnection once its boxes are answered (host, hostname and the key
\* choice given; user as typed)
AddSSHConnection(s, host, user, usePrivateKey) ==
    IF \E i \in DOMAIN s.conns :
           s.obj[s.conns[i]].alias = host /\ s.obj[s.conns[i]].user = user
    THEN Notice(s, "alreadyExists", host)
    ELSE LET b  == [alias |-> host, user |-> PersistedUser(user),
                    key |-> usePrivateKey, tag |-> None]
             s1 == LoadSSHConnections(
                       [s EXCEPT !.cfg = UpsertBlock(@, b), !.watch = TRUE], {})
             F  == ObjIds \ Reach(s1, BaseRoots(s1))
         IN IF ~s1.ok \/ F = {} THEN Fail(s1)
            ELSE LET n  == MinOf(F)
                     s2 == [s1 EXCEPT
                              !.obj[n] = [FreshObj(b) EXCEPT !.user = user],
                              !.conns = Append(@, n)]
                 IN Refresh([s2 EXCEPT !.conns = UniqueConnections(s2)])

\* command sshMultiConnect.addConnection
AddCmd(host, user, usePrivateKey) ==
    /\ CanCommand
    /\ Commit(AddSSHConnection(CmdCur, host, user, usePrivateKey))

\* an extension activated on an empty config file
InitAdd ==
    /\ cfg = <<>>
    /\ watch = FALSE
    /\ known = [h \in Hosts |-> <<>>]
    /\ hostKey = [h \in Hosts |-> "F1"]
    /\ obj = [o \in ObjIds |-> NoObj]
    /\ connections = <<>>
    /\ selected = 0
    /\ terminals = [a \in Aliases |-> 0]
    /\ instProv = [a \in Aliases |-> 0]
    /\ statProv = [a \in Aliases |-> 0]
    /\ prov = [p \in ProvIds |-> NoProv]
    /\ client = [c \in ClientIds |-> NoClient]
    /\ term = [k \in TermIds |-> NoTerm]
    /\ winTerms = <<>>
    /\ closeEv = {}
    /\ panel = [open |-> FALSE, conns |-> <<>>, cache |-> [a \in Aliases |-> 0]]
    /\ task = [t \in TaskIds |-> NoTask]
    /\ item = [a \in Aliases |-> NoItem]
    /\ left = MaxAddCmds
    /\ out = NoOut
    /\ StoreIdle /\ BrowserIdle

NextAdd ==
    \/ \E a \in Aliases, u \in UserInputs, k \in BOOLEAN : AddCmd(a, u, k)
    \/ \E a \in Aliases : RemoveCmd(a)
    \/ \E a \in Aliases : MoveCmd(a)
    \/ \E t \in TaskIds : FolderAnswered(t)
    \/ ConfigFileChanged

SpecAdd == InitAdd /\ [][NextAdd]_vars

\* --------------------------------------------------- file browser in use
\* The state a first session of B leaves behind (connect, select,
\* disconnect, the close event of its terminal delivered): the provider's
\* own map still holds the file browser of that session.  From there the
\* user works with connect, disconnect, the selection and the remote files
\* view only.
MaxBrowseCmds == 5

InitBrowse ==
    /\ cfg = InitCfg
    /\ watch = FALSE
    /\ known = [h \in Hosts |-> <<"F1">>]
    /\ hostKey = [h \in Hosts |-> "F1"]
    /\ obj = [o \in ObjIds |-> IF o <= Len(InitCfg) THEN FreshObj(InitCfg[o]) ELSE NoObj]
    /\ connections = <<1, 2>>
    /\ selected = 0
    /\ terminals = [a \in Aliases |-> 0]
    /\ instProv = [a \in Aliases |-> IF a = "B" THEN 1 ELSE 0]
    /\ statProv = [a \in Aliases |-> 0]
    /\ prov = [p \in ProvIds |->
                 IF p = 1 THEN [used |-> TRUE, conn |-> 2, temp |-> {}] ELSE NoProv]
    /\ client = [c \in ClientIds |-> NoClient]
    /\ term = [k \in TermIds |-> NoTerm]
    /\ winTerms = <<>>
    /\ closeEv = {}
    /\ panel = [open |-> FALSE, conns |-> <<>>, cache |-> [a \in Aliases |-> 0]]
    /\ task = [t \in TaskIds |-> NoTask]
    /\ item = [a \in Aliases |->
                 [conn |-> AliasOrd(a), connected |-> FALSE]]
    /\ left = MaxBrowseCmds
    /\ out = NoOut
    /\ StoreIdle /\ BrowserIdle

NextBrowse ==
    \/ \E a \in Aliases : ConnectCmd(a)
    \/ \E t \in TaskIds : UserAnswered(t)
    \/ \E t \in TaskIds : PassAnswered(t)
    \/ \E t \in TaskIds : ToolChecked(t)
    \/ \E t \in TaskIds : PhraseAnswered(t)
    \/ \E c \in ClientIds : ClientReady(c)
    \/ \E a \in Aliases : DisconnectCmd(a)
    \/ \E a \in Aliases : SelectCmd(a)
    \/ \E a \in Aliases : OpenFileCmd(a)

SpecBrowse == InitBrowse /\ [][NextBrowse]_vars

TypeOK ==
    /\ \A o \in ObjIds : obj[o].client \in ClientIds \cup {0}
    /\ \A a \in Aliases : terminals[a] \in TermIds \cup {0}
    /\ Range(connections) \subseteq ObjIds
    /\ selected \in ObjIds \cup {0}

\* ================================================================== claims
LiveClientsOf(a) == {c \in ClientIds : LiveClient(client[c]) /\ client[c].alias = a}
OpenTerminalsOf(a) == {k \in TermIds : term[k].st = "open" /\ term[k].alias = a}

\* The alias is Connected: a protocol client of it has emitted 'ready'.
Connected(a) == \E c \in LiveClientsOf(a) : client[c].st = "ready"

\* the protocol clients of the alias that exist and are not closed
ClientObjectsOf(a) ==
    {c \in ClientIds : client[c].st \in {"new", "connecting", "ready"} /\ client[c].alias = a}

OneSession(a) ==
    /\ Cardinality(ClientObjectsOf(a)) <= 1
    /\ Cardinality(OpenTerminalsOf(a)) <= 1

\* C1: at most one live session per alias: while an alias is Connected with
\* its one session, no step (connect included, which has to be a no-op)
\* creates a second protocol client, starts a second handshake or spawns a
\* second terminal for it.
C1_OneLiveSession ==
    [][\A a \in Aliases : (Connected(a) /\ OneSession(a)) => OneSession(a)']_vars

\* The connect attempts that can fail in the current state, each with what
\* its handler leaves behind: a continuation of a suspended connect, a connect
\* command, or the 'error' event of a client that is dialling.
FailureKinds ==
    {"userRequired", "noPassword", "noSshpass", "errorPassword", "errorKey",
     "keyReadFailed", "phraseCancelled", "noPassphrase", "identityMissing",
     "verifyError", "failedToConnect"}

ConnectStepOuts ==
    UNION {IF task[t].pc = "user" THEN UserOut(t)
           ELSE IF task[t].pc = "pass" THEN PassOut(t)
           ELSE IF task[t].pc = "tool" THEN ToolOut(t)
           ELSE IF task[t].pc = "phrase" THEN PhraseOut(t)
           ELSE IF task[t].pc = "confirm" /\ NoPrompt
                THEN ConfirmOut(t, TRUE) \cup ConfirmOut(t, FALSE)
           ELSE {} : t \in TaskIds}
    \cup UNION {IF CanCommand /\ item[a].conn # 0 /\ ~item[a].connected /\ FreeTask # 0
                THEN ConnectOut(a) ELSE {} : a \in Aliases}
    \cup {ErrorOut(c) : c \in {x \in ClientIds : client[x].st = "connecting"}}

FailedAttempts ==
    {<<Done(r), n[2]>> : <<r, n>> \in
        {<<r, n>> \in UNION {{r} \X r.notices : r \in {x \in ConnectStepOuts : x.ok}} :
            n[1] \in FailureKinds}}

\* Disconnected: the registry entry holds no client, no terminal is
\* registered, the panel does not list the alias.
IsDisconnected(s, a) ==
    /\ \A i \in DOMAIN s.conns : s.obj[s.conns[i]].alias = a => s.obj[s.conns[i]].client = 0
    /\ s.terminals[a] = 0
    /\ \A i \in DOMAIN s.panel.conns : s.obj[s.panel.conns[i]].alias # a

\* C2: whatever step a connect attempt fails at, the handler that reports the
\* failure leaves the alias Disconnected.
C2_FailedConnectTornDown ==
    \A f \in FailedAttempts : IsDisconnected(f[1], f[2])

\* The state a handler left, as the next handler finds it.
AsCur(s) == [s EXCEPT !.notices = {}, !.fire = FALSE, !.cmd = FALSE, !.out = NoOut]

\* What the registry holds, by content: the entries with their clients, the
\* terminal map, the file browsers with their temporary files, the selection.
EntryView(s, o) ==
    IF o = 0 THEN <<>>
    ELSE <<s.obj[o].alias, s.obj[o].user, s.obj[o].tag, s.obj[o].password,
           IF s.obj[o].client = 0 THEN <<>>
           ELSE <<s.client[s.obj[o].client].st, s.client[s.obj[o].client].ended>> >>

BrowserView(s, p) ==
    IF p = 0 THEN <<>> ELSE <<s.prov[p].temp, EntryView(s, s.prov[p].conn)>>

RegistryView(s) ==
    [entries   |-> [i \in DOMAIN s.conns |-> EntryView(s, s.conns[i])],
     terminals |-> [a \in Aliases |->
                      IF s.terminals[a] = 0 THEN <<>> ELSE <<s.term[s.terminals[a]]>>],
     browsers  |-> [a \in Aliases |-> <<BrowserView(s, s.statProv[a]),
                                        BrowserView(s, s.instProv[a])>>],
     selection |-> EntryView(s, s.sel),
     open      |-> {<<s.term[k].alias, s.term[k].user>> :
                       k \in {x \in TermIds : s.term[x].st = "open"}},
     live      |-> {s.client[c].alias : c \in {x \in ClientIds : LiveClient(s.client[x])}}]

\* disconnect on the tree item of alias a, then again on the item the
\* refreshed tree shows for a
DisconnectOnce(a) == Done(Disconnect(Cur, item[a].conn))

DisconnectTwice(a) ==
    LET s1 == AsCur(DisconnectOnce(a))
    IN Done(Disconnect(s1, s1.item[a].conn))

\* C3: disconnect is idempotent: from every reachable state, disconnecting an
\* alias twice in a row leaves the registry (clients, terminal map, file
\* browsers, selection) as disconnecting it once, and the second call shows
\* nothing but the closing message (it raises no error).
C3_DisconnectIdempotent ==
    \A a \in Aliases :
        (item[a].conn # 0 /\ DisconnectOnce(a).ok /\ DisconnectOnce(a).item[a].conn # 0
           /\ DisconnectTwice(a).ok)
        => /\ RegistryView(DisconnectTwice(a)) = RegistryView(DisconnectOnce(a))
           /\ DisconnectTwice(a).notices = {<<"closed", a>>}

\* a state that the disconnect command has just left: the terminal of the
\* alias is disposed and unregistered, its client is ended, the entry is kept
C3_Disconnected ==
    \E k \in closeEv :
        /\ term[k].st = "closed" /\ terminals[term[k].alias] = 0
        /\ LiveClientsOf(term[k].alias) = {}
        /\ item[term[k].alias].conn # 0 /\ ~item[term[k].alias].connected
        /\ obj[item[term[k].alias].conn].client = 0

EntryOf(s, a) == FirstWith(s.conns, LAMBDA x : s.obj[x].alias = a)

\* What moving the alias of the suspended task t into folder ans leaves of the
\* session that the registry entry e of the alias held.
SessionKept(t, ans, e) ==
    LET a == obj[e].alias
        r == MoveConnectionToFolder(Cur, t, ans)
        n == EntryOf(r, a)
        c == obj[e].client
    IN r.ok =>
         /\ n # 0
         /\ r.obj[n].client = c /\ r.client[c] = client[c]
         /\ r.obj[n].password = obj[e].password
         /\ r.obj[n].passphrase = obj[e].passphrase
         /\ r.terminals[a] = terminals[a]
         /\ r.statProv[a] = statProv[a] /\ r.instProv[a] = instProv[a]
         /\ \A p \in {statProv[a], instProv[a]} \ {0} : r.prov[p].temp = prov[p].temp
         /\ instProv[a] # 0 => r.prov[instProv[a]].conn = n
         /\ r.obj[n].tag = IF ans = "" THEN None ELSE ans

NoProgress(s) ==
    /\ \A u \in TaskIds : s.task[u].pc \in {"user", "pass", "phrase", "tool"}
                             => s.task[u] = task[u]
    /\ \A c \in ClientIds : /\ s.client[c].dial = client[c].dial
                            /\ s.client[c].ready = client[c].ready
                            /\ s.client[c].st \in {client[c].st, "new"}

ChangedKey(h) == known[h] # <<>> /\ Head(known[h]) # hostKey[h]

\* C5: with a stored fingerprint F1 and a scan that returns another F2, connect
\* stops at the confirmation without asking for a credential or dialling, and
\* a refusal or dismissal of the confirmation fails the attempt (error shown,
\* attempt over, nothing asked, nothing dialled) and leaves the trust store
\* as it is.
C5_NoConnectWithoutApproval ==
    /\ \A a \in Aliases : \A keyFile \in KeyFiles :
          LET o == item[a].conn
              r == Connect(CmdCur, FreeTask, o, keyFile, TRUE)
          IN (o # 0 /\ FreeTask # 0 /\ r.ok /\ ChangedKey(HostnameOf(a)))
             => /\ r.task[FreeTask].pc = "confirm"
                /\ r.task[FreeTask].scanned = hostKey[HostnameOf(a)]
                /\ r.known = known
                /\ NoProgress(r)
    /\ \A t \in TaskIds :
          task[t].pc = "confirm" =>
             \A r \in ConfirmOut(t, FALSE) :
                 /\ r.ok
                 /\ r.known = known
                 /\ r.task[t] = NoTask
                 /\ NoProgress(r)
                 /\ <<"verifyError", obj[task[t].conn].alias>> \in r.notices
                 /\ EntryOf(r, obj[task[t].conn].alias) # 0
                      => r.obj[EntryOf(r, obj[task[t].conn].alias)].client = 0

\* a connect is held at the confirmation of a changed host key
C5_ConfirmationPending ==
    \E t \in TaskIds :
        /\ task[t].pc = "confirm"
        /\ known[HostnameOf(obj[task[t].conn].alias)] = <<"F1">>
        /\ task[t].scanned = "F2"

\* C6: when the user approves a changed host key, the trust store afterwards
\* holds for that hostname exactly the fingerprint that was presented for
\* approval, and not the one stored before.
C6_StoreHoldsApprovedKey ==
    \A t \in TaskIds :
        LET h == HostnameOf(obj[task[t].conn].alias)
        IN (task[t].pc = "confirm" /\ known[h] # <<>> /\ Head(known[h]) # task[t].scanned)
           => \A r \in ConfirmOut(t, TRUE) :
                  r.ok => r.known[h] = << task[t].scanned >>

\* the aliases offered as targets by the panel
PanelAliases == {obj[panel.conns[i]].alias : i \in DOMAIN panel.conns}

\* the alias has a terminal of its session that is open in the window
HasLiveTerminal(a) == \E i \in DOMAIN winTerms : term[winTerms[i]].alias = a

\* C7: a send to a non-empty set of targets delivers the command to exactly
\* the targets that have a live terminal, reports a failure for exactly the
\* targets that have none, and is never aborted by a target without terminal.
C7_SendIsolatesFailures ==
    panel.open =>
        \A ids \in (SUBSET PanelAliases) \ {{}} : \A throws \in BOOLEAN :
            LET r == SendCommandToConnections(Cur, ids, throws)
            IN /\ r.out.delivered = {a \in ids : HasLiveTerminal(a)}
               /\ r.out.failed = {a \in ids : ~HasLiveTerminal(a)}
               /\ ~r.out.aborted

\* the records listAll() reads from the text
Listed(t) == {GetAllConnections(t)[i] : i \in DOMAIN GetAllConnections(t)}

\* the records upserted last per alias and not removed since
Expected == {saved[h][1] : h \in {x \in ConfigHosts : saved[x] # <<>>}}

\* C8: after every sequence of upsert and removeByAlias, listAll() on the file
\* returns exactly the records upserted last per alias and not removed since,
\* one per alias, each with every field equal to the upserted value.
C8_RoundTrip ==
    /\ Listed(text) = Expected
    /\ Len(GetAllConnections(text)) = Cardinality(Expected)

\* the blocks of a text: its lines that are not blank, grouped by Host line
RECURSIVE BlocksOf(_, _)
BlocksOf(lines, blocks) ==
    IF lines = <<>> THEN blocks
    ELSE LET line == Head(lines)
             n    == Len(blocks)
         IN IF IsHostLine(line) THEN BlocksOf(Tail(lines), Append(blocks, << line >>))
            ELSE IF n > 0 /\ ~IsBlank(line)
            THEN BlocksOf(Tail(lines), [blocks EXCEPT ![n] = Append(@, line)])
            ELSE BlocksOf(Tail(lines), blocks)

\* C9: an upsert of a record whose alias has a block replaces that block where
\* it stands: afterwards the file has the same aliases in the same order, one
\* block each, the block of the alias is the new entry and every other block
\* is as before, whether the alias was first, in the middle or last.
C9_UpsertInPlace ==
    \A h1 \in {HostOrder(text)} : \A b1 \in {BlocksOf(text, <<>>)} :
    \A c \in Records :
        FirstAt(h1, c.host, 1) # 0 =>
            \A t2 \in {InsertOrUpdateConnection(text, c)} :
            \A h2 \in {HostOrder(t2)} : \A b2 \in {BlocksOf(t2, <<>>)} :
               /\ h2 = h1
               /\ Cardinality({h2[i] : i \in DOMAIN h2}) = Len(h2)
               /\ Len(b2) = Len(b1)
               /\ \A i \in DOMAIN b2 :
                     b2[i] = IF i = FirstAt(h1, c.host, 1)
                             THEN BuildConnectionEntry(c) ELSE b1[i]

\* the middle one of three blocks has just been replaced by another record
C9_MiddleReplaced ==
    /\ lastOp = [kind |-> "upsert", at |-> 2, blocks |-> 3]
    /\ Len(HostOrder(text)) = 3
    /\ saved[HostOrder(text)[2][1]] = << Full(HostOrder(text)[2][1]) >>

\* the names of a list, lower-cased, in list order
LowerNames(l) == [i \in DOMAIN l |-> ToLowerCase(l[i].filename)]

\* C10: the list shown for a directory is a permutation of its entries in
\* which every directory precedes every file and, within the directories and
\* within the files, the names are in alphabetical order ignoring case.
C10_DirsFirstSorted ==
    /\ Len(shown) = Len(listing)
    /\ {shown[i] : i \in DOMAIN shown} = {listing[i] : i \in DOMAIN listing}
    /\ \A i, j \in DOMAIN shown :
          i < j => /\ ~(shown[j].isDirectory /\ ~shown[i].isDirectory)
                   /\ shown[i].isDirectory = shown[j].isDirectory
                        => LocaleCompare(LowerNames(shown)[i], LowerNames(shown)[j]) <= 0

\* a listing of files and directories in mixed case that was not in order
C10_MixedListingShown ==
    /\ Len(listing) = 3 /\ shown # listing
    /\ \E i, j \in DOMAIN listing : listing[i].isDirectory /\ ~listing[j].isDirectory
    /\ \E i, j \in DOMAIN listing :
          /\ listing[i].filename # ToLowerCase(listing[i].filename)
          /\ listing[j].filename = ToLowerCase(listing[j].filename)

\* ------------------------------------------------------------------ C11
\* the file browsers of the alias: the one the static map registers and the
\* one the remote files commands of the alias are routed to
BrowsersOf(s, a) == {s.statProv[a], s.instProv[a]} \ {0}

\* what disconnect has to leave of the session of entry o (alias a, client c,
\* terminal k, file browsers ps)
TornDown(r, o, a, c, k, ps) ==
    /\ r.client[c].ended /\ ~LiveClient(r.client[c])
    /\ r.obj[o].client = 0
    /\ k # 0 => r.term[k].st = "closed"
    /\ r.terminals[a] = 0
    /\ \A p \in ps : r.prov[p].temp = {}

\* C11: disconnect on a Connected alias (its entry holds a client that is
\* ready) ends the client and takes it out of the entry, disposes the terminal
\* and takes it out of the terminal map, leaves no temporary file mapped by
\* the file browsers of the alias, and keeps the entry in the list.
C11_DisconnectTearsDown ==
    \A a \in Aliases :
        \A o \in {item[a].conn} \ {0} :
            (item[a].connected /\ EntryOf(Cur, a) = o /\ obj[o].client # 0
               /\ client[obj[o].client].st = "ready") =>
                \A r \in {Disconnect(Cur, o)} :
                    /\ TornDown(r, o, a, obj[o].client, terminals[a], BrowsersOf(Cur, a))
                    /\ \E i \in DOMAIN r.conns : r.conns[i] = o

\* ------------------------------------------------------------------ C12
\* the entries of alias a in the list hold neither password nor passphrase
NoSecretsOf(s, a) ==
    \A i \in DOMAIN s.conns :
        s.obj[s.conns[i]].alias = a =>
            /\ s.obj[s.conns[i]].password = None
            /\ s.obj[s.conns[i]].passphrase = None

\* C12: after disconnect on the tree item of an alias, the alias is
\* Disconnected and no entry of it in the list holds a password or a
\* passphrase.
C12_DisconnectClearsSecrets ==
    \A a \in Aliases :
        \A o \in {item[a].conn} \ {0} :
            (item[a].connected /\ EntryOf(Cur, a) = o) =>
                \A r \in {Disconnect(Cur, o)} :
                    IsDisconnected(r, a) /\ NoSecretsOf(r, a)

\* ------------------------------------------------------------------ C13
\* C13: removeConnection on the tree item of an alias whose user is known
\* leaves no block of the alias in the config file and no entry of it in the
\* list; when the user is not known it shows the error 'Host and Username are
\* required' and leaves the config file and the list as they were.
C13_RemoveLeavesNoRecord ==
    \A a \in Aliases :
        \A o \in {item[a].conn} \ {0} :
            \A r \in {RemoveConnection(Cur, o)} :
                IF obj[o].user # None
                THEN ~HasBlock(r.cfg, a) /\ EntryOf(r, a) = 0
                ELSE /\ <<"hostUserRequired", a>> \in r.notices
                     /\ r.cfg = cfg /\ r.watch = watch
                     /\ r.conns = connections
                     /\ \A i \in DOMAIN connections :
                            r.obj[connections[i]] = obj[connections[i]]

\* removeConnection has just taken a record out of the file and its entry out
\* of the list, the tree still shows the item
C13_Removed ==
    \E a \in Aliases :
        /\ watch /\ ~HasBlock(cfg, a) /\ EntryOf(Cur, a) = 0
        /\ item[a].conn # 0 /\ obj[item[a].conn].user # None
        /\ \E b \in Aliases \ {a} : HasBlock(cfg, b) /\ EntryOf(Cur, b) # 0

\* ------------------------------------------------------------------ C14
\* the close events ks are delivered, each to both subscribers
RECURSIVE DeliverCloseEvents(_, _)
DeliverCloseEvents(s, ks) ==
    IF ks = {} THEN s
    ELSE LET k == CHOOSE x \in ks : TRUE
         IN DeliverCloseEvents(
                HandleTerminalClose(
                    HandleTerminalClose([s EXCEPT !.closeEv = @ \ {k}], k), k),
                ks \ {k})

\* removeConnection on entry o, then the close events of the terminals it
\* disposed
RemoveAndSettle(o) ==
    LET r == RemoveConnection(Cur, o)
    IN DeliverCloseEvents(r, r.closeEv)

\* C14: removeConnection on a Connected alias (its entry holds a ready
\* client, its user is known) tears the session down: once the handler and
\* the close events of the terminals it disposed have run, the client is
\* ended, the terminal map has no entry for the alias and its file browser is
\* cleaned up and no longer registered.
C14_RemoveTearsDown ==
    \A a \in Aliases :
        \A o \in {item[a].conn} \ {0} :
            (EntryOf(Cur, a) = o /\ obj[o].user # None /\ obj[o].client # 0
               /\ client[obj[o].client].st = "ready") =>
                \A r \in {RemoveAndSettle(o)} :
                    /\ r.client[obj[o].client].ended
                    /\ r.terminals[a] = 0
                    /\ r.statProv[a] = 0
                    /\ \A p \in BrowsersOf(Cur, a) : r.prov[p].temp = {}

\* ------------------------------------------------------------------ C15
\* the close event of terminal k is handled by both subscribers
CloseHandled(k) ==
    HandleTerminalClose(HandleTerminalClose([Cur EXCEPT !.closeEv = @ \ {k}], k), k)

\* C15: when the terminal of a Connected alias (one ready client, the
\* terminal registered for the alias, the alias in the list) has been closed,
\* handling the close event leaves the alias as disconnect does: the client
\* has been ended, no entry of the alias holds a client, no terminal is
\* registered for it.
C15_TerminalCloseDisconnects ==
    \A k \in closeEv :
        \A a \in {term[k].alias} :
            (terminals[a] = k /\ EntryOf(Cur, a) # 0 /\ OneSession(a)
               /\ Connected(a)) =>
                \A r \in {CloseHandled(k)} :
                    /\ \A c \in LiveClientsOf(a) :
                          r.client[c].ended /\ ~LiveClient(r.client[c])
                    /\ IsDisconnected(r, a)

\* ------------------------------------------------------------------ C16
\* C16: when a protocol client of an alias emits 'error', during the
\* handshake or after 'ready', its handlers leave the alias torn down as
\* disconnect does: the client is closed and no entry of the alias holds a
\* client, the terminal registered for the alias is disposed and out of the
\* terminal map, the file browser of the alias is unregistered and maps no
\* temporary file.
C16_ErrorTearsDown ==
    \A c \in ClientIds :
        (LiveClient(client[c]) /\ client[c].errs # <<>>) =>
            \A a \in {client[c].alias} :
                \A r \in {ErrorOut(c)} :
                    /\ ~LiveClient(r.client[c])
                    /\ IsDisconnected(r, a)
                    /\ terminals[a] # 0 => r.term[terminals[a]].st = "closed"
                    /\ r.statProv[a] = 0
                    /\ \A p \in BrowsersOf(Cur, a) : r.prov[p].temp = {}

\* ------------------------------------------------------------------ C17
\* a connect of alias a is in flight: a handler of it is suspended, or its
\* client is in the handshake
InFlight(a) ==
    \/ \E t \in TaskIds : /\ task[t].pc \notin {"idle", "folder"}
                          /\ obj[task[t].conn].alias = a
    \/ \E c \in ClientIds : client[c].st = "connecting" /\ client[c].alias = a

\* C17: while a connect of an alias is in flight, a second connect command
\* on the item of the alias is rejected at once: it suspends no handler (no
\* second prompt, no second tool check), registers no listener and starts no
\* handshake.
C17_SecondConnectRejected ==
    \A a \in Aliases :
        (InFlight(a) /\ NoPrompt /\ item[a].conn # 0 /\ ~item[a].connected
           /\ FreeTask # 0) =>
            \A r \in {x \in ConnectOut(a) : x.ok} :
                r.task = task /\ r.client = client

\* ------------------------------------------------------------------ C18
\* the outcomes of the operations on alias a that can run next: the steps of
\* its suspended connect and moveToFolder handlers, and connect, disconnect
\* and removeConnection on its tree item
OperationsOn(a) ==
    UNION {IF obj[task[t].conn].alias # a THEN {}
           ELSE IF task[t].pc = "user" THEN UserOut(t)
           ELSE IF task[t].pc = "pass" THEN PassOut(t)
           ELSE IF task[t].pc = "tool" THEN ToolOut(t)
           ELSE IF task[t].pc = "phrase" THEN PhraseOut(t)
           ELSE IF task[t].pc = "confirm"
                THEN ConfirmOut(t, TRUE) \cup ConfirmOut(t, FALSE)
           ELSE IF task[t].pc = "folder"
                THEN {MoveConnectionToFolder(Cur, t, ans) : ans \in Answers(t, {"", "t"})}
           ELSE {} : t \in {x \in TaskIds : task[x].conn # 0}}
    \cup (IF item[a].conn # 0 /\ ~item[a].connected /\ FreeTask # 0
          THEN ConnectOut(a) ELSE {})
    \cup (IF item[a].conn # 0
          THEN {Disconnect(Cur, item[a].conn), RemoveConnection(Cur, item[a].conn)}
          ELSE {})

\* the registry state of alias b is in r what it is now: the client its entry
\* holds, its secrets, its terminal, its file browsers
SameRegistryStateOf(r, b) ==
    /\ \A e \in {EntryOf(Cur, b)} : \A n \in {EntryOf(r, b)} :
          /\ (e = 0) = (n = 0)
          /\ e # 0 => /\ r.obj[n].client = obj[e].client
                      /\ r.obj[n].password = obj[e].password
                      /\ r.obj[n].passphrase = obj[e].passphrase
    /\ r.terminals[b] = terminals[b]
    /\ terminals[b] # 0 => r.term[terminals[b]] = term[terminals[b]]
    /\ r.statProv[b] = statProv[b] /\ r.instProv[b] = instProv[b]
    /\ \A p \in BrowsersOf(Cur, b) : r.prov[p].temp = prov[p].temp

\* C18: no operation on an alias (connect with each of its steps, failed or
\* refused attempts included, disconnect, moveToFolder, removeConnection)
\* changes the registry state of another alias.
C18_OtherAliasUntouched ==
    \A a \in Aliases :
        \A r \in {x \in OperationsOn(a) : x.ok} :
            \A b \in Aliases \ {a} : SameRegistryStateOf(r, b)

\* ------------------------------------------------------------------ C19
\* the reload that the config file watcher starts
WatcherReload == LoadSSHConnections([Cur EXCEPT !.watch = FALSE], {})

\* C19: a reload of the config file ends no session: when the watcher
\* reports a change, every alias whose entry holds a ready client and whose
\* block is still in the file has afterwards an entry that holds the same
\* client.
C19_ReloadKeepsSessions ==
    watch =>
        \A r \in {WatcherReload} :
            \A a \in Aliases :
                \A e \in {EntryOf(Cur, a)} \ {0} :
                    (obj[e].client # 0 /\ client[obj[e].client].st = "ready"
                       /\ HasBlock(cfg, a) /\ r.ok) =>
                        \A n \in {EntryOf(r, a)} :
                            n # 0 /\ r.obj[n].client = obj[e].client

\* ------------------------------------------------------------------ C20
\* the outcomes of the steps of connect on alias a that can run next: the
\* command itself and the steps of its suspended handlers
ConnectStepsOf(a) ==
    UNION {IF obj[task[t].conn].alias # a THEN {}
           ELSE IF task[t].pc = "user" THEN UserOut(t)
           ELSE IF task[t].pc = "pass" THEN PassOut(t)
           ELSE IF task[t].pc = "tool" THEN ToolOut(t)
           ELSE IF task[t].pc = "phrase" THEN PhraseOut(t)
           ELSE {} : t \in {x \in TaskIds : task[x].conn # 0}}
    \cup (IF item[a].conn # 0 /\ ~item[a].connected /\ FreeTask # 0
          THEN ConnectOut(a) ELSE {})

\* C20: while the host of an alias is not in known_hosts, no step of a
\* connect on the alias puts it there unless a client of the alias has
\* emitted 'ready'; a step that cancels the attempt or fails leaves
\* known_hosts as it was.
C20_TrustOnlyAfterReady ==
    \A a \in Aliases :
        \A h \in {HostnameOf(a)} :
            known[h] = <<>> =>
                \A r \in {x \in ConnectStepsOf(a) : x.ok} :
                    \/ r.known[h] = <<>>
                    \/ \E c \in ClientIds : /\ r.client[c].alias = a
                                            /\ r.client[c].st = "ready"

\* ------------------------------------------------------------------ C21
\* C21: the shell arguments of no terminal spawned by a ready handler, for
\* password or key authentication, contain the password or the passphrase.
C21_NoSecretInArguments ==
    \A k \in TermIds : term[k].st # "free" => ~term[k].secretArg

\* ------------------------------------------------------------------ C22
\* the values the password box and the passphrase box are answered with
Secrets == {"pw", "pp"}

\* the in-memory connection of record c while the alias is connected: the
\* fields of the record and the transient ones of ExtendedSSHConnection
InMemory(c) ==
    c @@ [id |-> c.host, usePrivateKey |-> IsDef(c.identityFile),
          password |-> << <<"pw">> >>, passphrase |-> << <<"pp">> >>]

AtomsOf(t) == UNION {{t[i][j] : j \in DOMAIN t[i]} : i \in DOMAIN t}

\* C22: the config file never holds a password or a passphrase: whatever the
\* file holds, an upsert of an in-memory connection that carries both writes
\* the same text as the upsert of its record alone, and no line of it holds
\* a secret.
C22_NoSecretPersisted ==
    /\ AtomsOf(text) \cap Secrets = {}
    /\ \A c \in Records :
          \A w \in {InsertOrUpdateConnection(text, InMemory(c))} :
              /\ AtomsOf(w) \cap Secrets = {}
              /\ w = InsertOrUpdateConnection(text, c)

\* the file holds two records, the last operation replaced one of them
C22_RecordRewritten ==
    /\ lastOp.kind = "upsert" /\ lastOp.at # 0
    /\ Len(HostOrder(text)) >= 2

\* ------------------------------------------------------------------ C23
\* C23: every connection in the target list of the multi command panel is
\* Connected: it holds a client that has emitted 'ready' and is still
\* connected.
C23_TargetsAreConnected ==
    panel.open =>
        \A i \in DOMAIN panel.conns :
            \A o \in {panel.conns[i]} :
                /\ obj[o].client # 0
                /\ client[obj[o].client].st = "ready"

\* C24: no two entries of the connection list and no two blocks of the
\* config file carry the same alias, whatever was added, moved or removed.
C24_AliasUnique ==
    /\ \A i, j \in DOMAIN connections :
          obj[connections[i]].alias = obj[connections[j]].alias => i = j
    /\ \A i, j \in DOMAIN cfg : cfg[i].alias = cfg[j].alias => i = j

\* the aliases removeByAlias is asked to delete: those of the records and one
\* that differs from an alias of the file only by its case
RemovedAliases == ConfigHosts \cup {"A"}

IsTagLine(line) == StartsWith(TrimLine(line), <<"#", Sp, "vFolderTag", Colon, Sp>>)

\* the tag a folder-tag comment line holds
HeldTag(line) == SubSeq(TrimLine(line), 6, Len(TrimLine(line)))

\* C26: a folder-tag comment on the line right above a Host line is read by
\* listAll() as the folder tag of the record that Host line starts.
C26_TagAnnotatesNextBlock ==
    \A i \in 1..(Len(text) - 1) :
        IsTagLine(text[i]) /\ IsHostLine(text[i + 1]) =>
            \A c \in Listed(text) :
                c.host = HostOfLine(text[i + 1]) => c.vFolderTag = << HeldTag(text[i]) >>

\* folderName.trim() || undefined
FolderOf(folderName) == IF folderName = "" THEN None ELSE folderName

\* C27: moveToFolder of an alias that has a block changes nothing but the
\* folder tag of that block in the config file (a blank answer removes the tag): the user and the key
\* setting of that block and every other block stay as they were, also when
\* the alias has been connected since it was loaded; a dismissed box changes
\* neither the file nor the registry.
C27_MoveChangesOnlyTag ==
    \A t \in TaskIds : task[t].pc = "folder" /\ HasBlock(cfg, obj[task[t].conn].alias) =>
        \A o \in {task[t].conn} : \A folderName \in {None, "", "t"} :
            \A r \in {MoveConnectionToFolder(Cur, t, folderName)} :
                r.ok =>
                    IF folderName = None
                    THEN r.cfg = cfg /\ r.conns = connections /\ r.obj = obj
                    ELSE /\ Len(r.cfg) = Len(cfg)
                         /\ \A i \in DOMAIN cfg :
                               r.cfg[i] = IF cfg[i].alias = obj[o].alias
                                          THEN [cfg[i] EXCEPT !.tag = FolderOf(folderName)]
                                          ELSE cfg[i]

C29_NoMappingOutlivesSession ==
    \A a \in Aliases : \A o \in {EntryOf(Cur, a)} :
        o # 0 /\ item[a].conn = o =>
            /\ \A r \in {Disconnect(Cur, o)} :
                  \A p \in BrowsersOf(Cur, a) : r.prov[p].temp = {}
            /\ \A r \in {RemoveConnection(Cur, o)} :
                  (\A i \in DOMAIN r.conns : r.conns[i] # o) =>
                      \A p \in BrowsersOf(Cur, a) : r.prov[p].temp = {}

\* C30: an alias has at most one file browser, and the disconnect of a
\* connected alias keeps that browser registered, so that a reconnect finds
\* the same instance again.
C30_OneBrowserForLife ==
    \A a \in Aliases :
        /\ Cardinality(BrowsersOf(Cur, a)) <= 1
        /\ \A o \in {EntryOf(Cur, a)} :
              (/\ o # 0 /\ item[a].conn = o /\ item[a].connected
               /\ obj[o].client # 0 /\ client[obj[o].client].st = "ready"
               /\ statProv[a] # 0) =>
                  \A r \in {Disconnect(Cur, o)} :
                      /\ r.statProv[a] = statProv[a]
                      /\ r.prov[statProv[a]].used

\* C31: known_hosts holds at most one fingerprint per hostname, and
\* addKnownHost of the fingerprint that is stored for the hostname leaves the
\* file as it is.
C31_OneFingerprint ==
    \A h \in Hosts :
        /\ Len(known[h]) <= 1
        /\ \A f \in Fingerprints : known[h] = <<f>> =>
              \A net \in BOOLEAN : AddKnownHost(Cur, h, f, net).known = known

\* the key of a host has been replaced by the one it presents after a change
C31_KeyReplaced == \E h \in Hosts : known[h] = <<"F2">> /\ hostKey[h] = "F2"

\* the warning 'host key has changed' of a connect to hostname h is answered
\* in this step
ConfirmedFor(h) ==
    \E t \in TaskIds :
        /\ task[t].pc = "confirm"
        /\ task'[t].pc # "confirm"
        /\ HostnameOf(obj[task[t].conn].alias) = h

\* C32: a step that replaces the fingerprint stored for a hostname by another
\* one is a step in which the user answers the warning of a connect to that
\* hostname.
C32_ReplaceOnlyConfirmed ==
    [][\A h \in Hosts :
          (known[h] # <<>> /\ known'[h] # <<>> /\ known'[h] # known[h])
              => ConfirmedFor(h)]_vars

\* the registry entry o holds a client whose handshake has completed
IsConnected(s, o) == s.obj[o].client # 0 /\ s.client[s.obj[o].client].st = "ready"

\* C33: a click on the tree item of a connected alias selects it and makes its
\* file browser the active one; a click on an alias that is not connected
\* clears the selection and activates no file browser.
C33_SelectOnlyConnected ==
    \A a \in Aliases : \A o \in {item[a].conn} :
        o # 0 /\ NoPrompt =>
            \A r \in {SelectConnection(Cur, o, FALSE)} :
                r.ok =>
                    IF IsConnected(Cur, o)
                    THEN r.sel = o /\ r.instProv[a] # 0 /\ r.instProv[a] = r.statProv[a]
                    ELSE r.sel = 0 /\ r.instProv = instProv /\ r.statProv = statProv

\* C34: an alias is in the registry's terminal map only while its registry
\* entry holds a client.
C34_TerminalOnlyWithClient ==
    \A a \in Aliases :
        terminals[a] # 0 =>
            \A o \in {EntryOf(Cur, a)} : o # 0 /\ obj[o].client # 0

\* C35: no client is held by the registry entries of two different aliases,
\* and the client an entry holds was created for the alias of that entry.
C35_ClientOfOneAlias ==
    /\ \A i, j \in DOMAIN connections :
          \A x \in {obj[connections[i]]} : \A y \in {obj[connections[j]]} :
              (x.client # 0 /\ x.client = y.client) => x.alias = y.alias
    /\ \A i \in DOMAIN connections : \A x \in {obj[connections[i]]} :
          x.client # 0 => client[x.client].alias = x.alias

\* a folder move has re-attached a live client to the reloaded entry of its alias
C35_ClientReattached ==
    \E i \in DOMAIN connections : \A x \in {obj[connections[i]]} :
        /\ x.client # 0 /\ client[x.client].st = "ready"
        /\ x.tag = "t"
        /\ client[x.client].alias = x.alias

\* C36: the 'ready' event of a handshake spawns and registers a terminal for
\* an alias only if the registry entry of that alias still holds the client of
\* that handshake (the attempt has not been given up, the alias has not been
\* disconnected or removed).
C36_ReadyOnlyForLiveAttempt ==
    \A c \in ClientIds : client[c].st = "connecting" =>
        \A r \in {RunReady([Cur EXCEPT !.client[c].st = "ready"], client[c].ready)} :
            r.ok =>
                \A a \in Aliases :
                    r.terminals[a] # terminals[a]
                        => \A o \in {EntryOf(Cur, a)} : o # 0 /\ obj[o].client = c

\* C37: every client whose handshake is in flight or has completed, and that
\* has not been ended, is the client of the registry entry of its alias.
C37_LiveClientReachable ==
    \A c \in ClientIds :
        (LiveClient(client[c]) /\ ~client[c].ended) =>
            \A o \in {EntryOf(Cur, client[c].alias)} : o # 0 /\ obj[o].client = c

\* ------------------------------------------------------------------ C38
\* C38: for every alias the panel offers as a target, the terminal that send
\* takes from the panel's cache (after refreshing it from the window) is an
\* open terminal and is the terminal registered for the alias's session, once
\* every close event has been handled.
C38_SendReachesOpenTerminal ==
    (panel.open /\ closeEv = {}) =>
        \A a \in PanelAliases :
            \A k \in {FillCache(Cur)[a]} :
                k # 0 => term[k].st = "open" /\ terminals[a] = k

\* ------------------------------------------------------------------ C39
\* the state in which the close event of terminal k is taken off the queue
CloseTaken(s, k) == [s EXCEPT !.closeEv = @ \ {k}]

\* the state a handler has left, its notices read and dismissed
Dismissed(s) == [s EXCEPT !.notices = {}]

\* C39: handling a terminal close is idempotent.  For a pending close event,
\* the first delivery does what one disconnect of the alias's entry does and
\* the second delivery changes nothing and shows nothing (no second
\* disconnect runs); and the close event raised by disconnect's own dispose
\* of the terminal, delivered to both subscribers, changes nothing and shows
\* nothing after the disconnect.
C39_CloseHandledOnce ==
    /\ \A k \in closeEv :
          \A r \in {HandleTerminalClose(CloseTaken(Cur, k), k)} :
              /\ HandleTerminalClose(Dismissed(r), k) = Dismissed(r)
              /\ \A a \in Aliases :
                    (terminals[a] = k /\ EntryOf(Cur, a) # 0) =>
                        r = Disconnect(CloseTaken(Cur, k), EntryOf(Cur, a))
    /\ \A a \in Aliases :
          \A o \in {item[a].conn, EntryOf(Cur, a)} \ {0} :
              \A r \in {Disconnect(Cur, o)} :
                  \A k \in r.closeEv \ closeEv :
                      \A q \in {Dismissed(CloseTaken(r, k))} :
                          HandleTerminalClose(HandleTerminalClose(q, k), k) = q

\* the terminal of a Connected alias has been closed and its close event is
\* about to be delivered
C39_ClosePending ==
    \E k \in closeEv : \E a \in Aliases :
        /\ terminals[a] = k
        /\ EntryOf(Cur, a) # 0
        /\ IsConnected(Cur, EntryOf(Cur, a))

\* ------------------------------------------------------------------ C40
\* C40: every protocol client that has been told to connect, by the password
\* path or by the key path, dials the hostname of its record and not the
\* alias.
C40_DialsHostname ==
    \A c \in ClientIds :
        client[c].dial # None => client[c].dial = HostnameOf(client[c].alias)

====
